---- MODULE Spec2Model ----
(***************************************************************************)
(* A model of the hlb progress manager (package solver/progress): the      *)
(* errgroup of submitted goroutines, the status consumer handleStatus, the *)
(* per-job forwarding goroutines, Wait/Release, and the TUI's reads.       *)
(***************************************************************************)
EXTENDS Naturals, Integers, Sequences, FiniteSets, TLC

\* ------------------------------------------------------------- bounds
\* Statuses a producer sends on one status channel before it closes it.
MaxStatuses == 3

\* Calls of the debugger hook in one run
MaxSteps == 3

\* Breakpoints in the debugger's set
MaxBreaks == 2

\* Statements in a checked block
MaxStmts == 3

\* Function declarations in a checked file
MaxDecls == 4

\* Bytes of a source text
MaxLen == 3

\* Bytes of one Write
MaxChunk == 2

\* Statuses handleStatus folds whole, and the Logs of one status
MaxFolds == 2
MaxLogs == 2

Jobs == {"j1", "j2"}
Digests == {"d1", "d2"}

\* The jobs the client's function registers in one run
RunJobs == {"j1"}

\* byte('\n')
Newline == 10

\* ------------------------------------------------------ program constants
BuildUnknown == 0
BuildBuilding == 1
BuildFinished == 2
BuildFailed == 3
BuildCanceled == 4

TaskCreated == 0
TaskRunning == 1
TaskCached == 2
TaskErrored == 3
TaskCanceled == 4
TaskCompleted == 5
TaskUnknown == 6

\* TaskStatus.String()
StatusString(ts) ==
  CASE ts = TaskCreated -> "created"
    [] ts = TaskRunning -> "running"
    [] ts = TaskCached -> "cached"
    [] ts = TaskErrored -> "errored"
    [] ts = TaskCanceled -> "canceled"
    [] ts = TaskCompleted -> "completed"
    [] OTHER -> "unknown"

\* ------------------------------------------------------- checker inputs
\* A block: its type, the op of an option type, and its statements
Block(typ, op, stmts) == [typ |-> typ, op |-> op, stmts |-> stmts]

\* A call statement with basic-literal arguments, given by their kinds
Call(name, args) == [kind |-> "call", name |-> name, args |-> args]

\* A comment statement
Comment == [kind |-> "comment", name |-> "", args |-> <<>>]

\* An error value: its kind, the statement it names, ErrNumArgs' Expected
Verdict(err, at, expected) == [err |-> err, at |-> at, expected |-> expected]
Nil == Verdict("nil", 0, 0)
Panic == Verdict("panic", 0, 0)

\* What SemanticCheck's declaration passes return: the error, the idents of
\* ErrDuplicateDecls, and how many function bodies were checked
DeclResult(err, dupDecls, bodies) ==
  [err |-> err, dupDecls |-> dupDecls, bodies |-> bodies]

\* ------------------------------------------------------------- errors
\* An error is its message, a sequence of words; the nil error is <<>>.
NoErr == <<>>
ErrCanceled == <<"context", "canceled">>
ErrSolve == <<"failed", "to", "solve">>
ErrRpcCanceled == <<"rpc", "error", "context", "canceled">>
ErrDebugExit == <<"exiting", "debugger">>
ErrExit == <<"exit", "code", "1">>

\* task.Start's error for a task that is not in status Created
ErrTaskStatus(ts) == <<"task", "already", "at", "status", StatusString(ts)>>

\* strings.Contains on messages: sub occurs in s as a contiguous run of words
Contains(s, sub) ==
  \E i \in 1..(Len(s) + 1) :
    /\ i + Len(sub) - 1 <= Len(s)
    /\ SubSeq(s, i, i + Len(sub) - 1) = sub

\* The errors a function submitted by the client may return
FnErrors == {NoErr, ErrSolve, ErrRpcCanceled}

\* ----------------------------------------------------- vertex events
NoPanic == "none"
NoVtx == [digest |-> "nil"]
NoTask == [id |-> "nil"]
NoStatus == [job |-> "nil"]

\* client.Vertex as the consumer reads it: Digest, Name, Started, Completed, Error
Vertex(d, s, c, e) ==
  [digest |-> d, name |-> "op", started |-> s, completed |-> c, error |-> e]

VertexEvents ==
  {Vertex(d, s, FALSE, NoErr) : d \in Digests, s \in BOOLEAN}
    \cup {Vertex(d, TRUE, TRUE, e) : d \in Digests, e \in {NoErr, ErrExit, ErrRpcCanceled}}
    \cup {Vertex(d, FALSE, TRUE, NoErr) : d \in Digests}

\* The Vertexes of a SolveStatus as sent on a job's channel
Statuses == {<<v>> : v \in VertexEvents}

\* The statuses that decide handleStatus's control flow: a vertex started,
\* completed, or completed without having been reported as started
FlowStatuses ==
  {<<v>> : v \in {w \in VertexEvents : (w.started \/ w.completed) /\ w.error = NoErr}}

\* ------------------------------------------------------ debugged program
\* A call of the debugger hook: the function whose scope it is given (or the
\* module) and the name of the call statement that is its node, "" when the
\* node is the function itself
Hook(fn, call) == [fn |-> fn, call |-> call]

\* The hook calls of a program that enters f again and again
DefaultProgram ==
  [n \in 1..MaxSteps |-> IF n = 1 THEN Hook("module", "") ELSE Hook("f", "")]

\* The hook calls of the programs debugged: the module first, then entries
\* of f and g and the calls image and breakpoint in f's body
Programs ==
  {p \in [1..MaxSteps ->
            {Hook("module", ""), Hook("f", ""), Hook("f", "image"),
             Hook("f", "breakpoint"), Hook("g", "")}] :
     \A n \in 1..MaxSteps : (p[n].fn = "module") <=> (n = 1)}

VARIABLES
  ctxErr,          \* m.ctx.Err(): NoErr while the shared context is live
  gErr,            \* errgroup: the error g.Wait() returns
  status,          \* m.status
  interrupt,       \* m.interrupt is closed
  statusChClosed,  \* m.statusCh is closed
  done,            \* m.done is closed
  panicked,        \* the process died of a panic: the channel closed twice
  taskByID,        \* m.taskByID
  vtxByDigest,     \* m.vtxByDigest
  jobTasks,        \* job.taskByID, per job: the ids it holds
  vtxMu,           \* m.vtxMu: [writer, readers]
  fnPc,            \* the function the client submits with Go
  jobPc,           \* per job: the goroutine NewJob submits
  fwdPc,           \* per job: the goroutine NewChannel submits
  fwdBuf,          \* per job: the status that goroutine holds
  taskPc,          \* per task id: the goroutine NewTask submits
  nSent,           \* per job: producer sends that completed
  hPc,             \* handleStatus position
  hCur,            \* handleStatus: solveStatus
  hIdx,            \* handleStatus: index into solveStatus.Vertexes
  hPrev,           \* handleStatus: prev
  hErr,            \* what handleStatus returned
  wPc,             \* Wait position
  waitErr,         \* what Wait returned
  firstRet,        \* history: first non-nil error a submitted function returned
  lastRet,         \* history: last non-nil error a submitted function returned
  lastFold,        \* history, per job: <<seq, index>> of the vertex folded last
  nRecv,           \* history, per job: statuses the consumer accepted
  rPc,             \* TUI.View position in pm.Current() * 100 / pm.Total()
  rCur,            \* TUI.View: what Current() returned
  rMin,            \* Total: min
  tuiJobs,         \* TUI: the jobs of t.jobs
  tuiTasks,        \* TUI: the task ids of t.tasks
  jobModelTasks,   \* TUI, per job of t.jobs: the task ids of its j.tasks
  runCtx,          \* Run: the context of context.WithCancel is done
  runPc,           \* Run position
  tuiPc,           \* Run's TUI goroutine position
  history,         \* debugger: history
  historyIndex,    \* debugger: historyIndex
  reverseStep,     \* debugger: reverseStep
  cont,            \* debugger: cont
  dbgPc,           \* debugger hook position
  dbgLoop,         \* debugger hook: inside the replay loop
  dbgTrail,        \* history: <<forward steps, reverse-steps after them>>
  scopeData,       \* fun.Scope: the Data of the parameter's Object
  program,         \* debugger: scope function and call of each hook call
  fun,             \* debugger: fun
  next,            \* debugger: next
  breakpoints,     \* debugger: breakpoints
  staticBreakpoints, \* debugger: staticBreakpoints
  dbgOut,          \* history: the last command, what the last debug() did
  chkBlock,        \* checker: the block of the declaration being checked
  chkPc,           \* checker: "idle", "block" or "call"
  chkCall,         \* checker: the call given to checkCallStmt and its index
  chkVerdict,      \* checker: the error returned
  chkParams,       \* checker: the parameter list checkCallStmt materialised
  chkFields,       \* checker: the callee's declared list after the check
  declFile,        \* checker: the function declarations of the file
  declErr,         \* checker: what the declaration passes returned
  chkArg,          \* checker: the parameter type and argument last checked
  genStack,        \* generator: the emitFuncDecl calls in progress
  genScope,        \* generator: fun.Scope, the Data bound to each name
  genRet,          \* generator: what the outermost emitFuncDecl returned
  genAlias,        \* generator: the alias evaluated and emitAliasDecl's value
  rdAll,           \* NewlinedReader: all the bytes of the underlying reader
  rdRest,          \* NewlinedReader: the bytes the underlying reader still has
  rdOut,           \* NewlinedReader: the bytes its Reads have returned
  newlined,        \* NewlinedReader: newlined
  rdErr,           \* NewlinedReader: "none" before use, else the last error
  ibBuf,           \* IndexedBuffer: buf
  ibOffset,        \* IndexedBuffer: offset
  ibOffsets,       \* IndexedBuffer: offsets
  ibRes,           \* IndexedBuffer: the last Segment or Line call and result
  taskBuf,         \* task.buf of the task of each digest
  hasLogs,         \* task.hasLogs of the task of each digest
  logsRecv         \* per digest, the log bytes handleStatus has received

mgrVars == <<status, interrupt, statusChClosed, done>>
grpVars == <<ctxErr, gErr, firstRet, lastRet>>
mapVars == <<taskByID, vtxByDigest, jobTasks>>
goVars == <<fnPc, jobPc, fwdPc, fwdBuf, taskPc>>
prodVars == <<nSent>>
hVars == <<hPc, hCur, hIdx, hPrev, hErr, lastFold, nRecv>>
wVars == <<wPc, waitErr>>
tuiVars == <<tuiJobs, tuiTasks, jobModelTasks>>
rVars == <<rPc, rCur, rMin, tuiVars>>
uiVars == <<runCtx, runPc, tuiPc>>
brkVars == <<program, fun, next, breakpoints, staticBreakpoints, dbgOut>>
dbgVars ==
  <<history, historyIndex, reverseStep, cont, dbgPc, dbgLoop, dbgTrail,
    scopeData, brkVars>>
chkVars == <<chkBlock, chkPc, chkCall, chkVerdict, chkParams, chkFields>>
declVars == <<declFile, declErr>>
genVars == <<genStack, genScope, genRet, genAlias>>
rdVars == <<rdAll, rdRest, rdOut, newlined, rdErr>>
ibVars == <<ibBuf, ibOffset, ibOffsets, ibRes>>
logVars == <<taskBuf, hasLogs, logsRecv>>
auxVars == <<declVars, chkArg, genVars, rdVars, ibVars, logVars>>
farVars == <<uiVars, dbgVars, chkVars, auxVars>>

vars ==
  <<mgrVars, grpVars, mapVars, goVars, prodVars, hVars, wVars, rVars, farVars,
    vtxMu, panicked>>

\* NewManager leaving status at its zero value
NewManagerStatusZero == BuildUnknown

\* NewManager: status: BuildBuilding
NewManagerStatus == BuildBuilding

\* NewManager
Init ==
  /\ ctxErr = NoErr
  /\ gErr = NoErr
  /\ firstRet = NoErr
  /\ lastRet = NoErr
  /\ status = NewManagerStatus
  /\ interrupt = FALSE
  /\ statusChClosed = FALSE
  /\ done = FALSE
  /\ panicked = NoPanic
  /\ taskByID = [d \in Digests |-> NoTask]
  /\ vtxByDigest = [d \in Digests |-> NoVtx]
  /\ jobTasks = [j \in Jobs |-> {}]
  /\ vtxMu = [writer |-> FALSE, readers |-> 0]
  /\ fnPc = "idle"
  /\ jobPc = [j \in Jobs |-> "idle"]
  /\ fwdPc = [j \in Jobs |-> "idle"]
  /\ fwdBuf = [j \in Jobs |-> NoStatus]
  /\ taskPc = [d \in Digests |-> "idle"]
  /\ nSent = [j \in Jobs |-> 0]
  /\ hPc = "recv"
  /\ hCur = NoStatus
  /\ hIdx = 0
  /\ hPrev = NoVtx
  /\ hErr = NoErr
  /\ lastFold = [j \in Jobs |-> <<0, 0>>]
  /\ nRecv = [j \in Jobs |-> 0]
  /\ wPc = "idle"
  /\ waitErr = NoErr
  /\ rPc = "idle"
  /\ rCur = 0
  /\ rMin = 0
  /\ tuiJobs = {}
  /\ tuiTasks = {}
  /\ jobModelTasks = [j \in Jobs |-> {}]
  /\ runCtx = FALSE
  /\ runPc = "idle"
  /\ tuiPc = "idle"
  /\ history = <<>>
  /\ historyIndex = -1
  /\ reverseStep = FALSE
  /\ cont = FALSE
  /\ dbgPc = "idle"
  /\ dbgLoop = FALSE
  /\ dbgTrail = <<0, 0>>
  /\ scopeData = 0
  /\ program = DefaultProgram
  /\ fun = "nil"
  /\ next = "nil"
  /\ breakpoints = <<>>
  /\ staticBreakpoints = <<>>
  /\ dbgOut = [cmd |-> "", skipped |-> FALSE, listed |-> FALSE]
  /\ chkBlock = Block("fs", "", <<>>)
  /\ chkPc = "idle"
  /\ chkCall = [index |-> -1, call |-> Comment]
  /\ chkVerdict = Verdict("none", 0, 0)
  /\ chkParams = <<>>
  /\ chkFields = <<>>
  /\ declFile = <<>>
  /\ declErr = DeclResult("none", <<>>, 0)
  /\ chkArg = [typ |-> "", arg |-> Comment]
  /\ genStack = <<>>
  /\ genScope = [n \in {"p", "q"} |-> "none"]
  /\ genRet = "none"
  /\ genAlias = [host |-> [type |-> "", stmts |-> <<>>], at |-> 0, v |-> "none"]
  /\ rdAll = <<>>
  /\ rdRest = <<>>
  /\ rdOut = <<>>
  /\ newlined = 0
  /\ rdErr = "none"
  /\ ibBuf = <<>>
  /\ ibOffset = 0
  /\ ibOffsets = <<>>
  /\ ibRes = [op |-> "none", arg |-> 0, bytes |-> <<>>, err |-> "nil"]
  /\ taskBuf = [d \in Digests |-> <<>>]
  /\ hasLogs = [d \in Digests |-> FALSE]
  /\ logsRecv = [d \in Digests |-> <<>>]

\* ---------------------------------------------------------- errgroup
\* An error group that keeps the last non-nil error
GroupErrLast(cur, e) == IF e # NoErr THEN e ELSE cur

\* errgroup.Group.Go: errOnce keeps the first non-nil error
GroupErr(cur, e) == IF cur = NoErr THEN e ELSE cur

\* errgroup.Group.Go, after the submitted function returned e: the first error
\* is kept and cancels the shared context
Returned(e) ==
  /\ gErr' = GroupErr(gErr, e)
  /\ ctxErr' = IF e # NoErr /\ ctxErr = NoErr THEN ErrCanceled ELSE ctxErr
  /\ firstRet' = IF firstRet = NoErr THEN e ELSE firstRet
  /\ lastRet' = IF e # NoErr THEN e ELSE lastRet

\* errgroup's WaitGroup counter: submitted functions that have not returned
Live ==
  (IF fnPc = "running" THEN 1 ELSE 0)
    + Cardinality({j \in Jobs : jobPc[j] = "send"})
    + Cardinality({j \in Jobs : fwdPc[j] \in {"select", "send"}})
    + Cardinality({d \in Digests : taskPc[d] = "send"})

\* The client registers jobs and channels from inside the function it
\* submitted, so before g.Wait() can return
CanSubmit == fnPc = "running"

\* ------------------------------------------------------------ manager
\* manager.Release: close(m.interrupt); closing a closed channel panics
Release ==
  /\ panicked = NoPanic
  /\ IF interrupt
       THEN panicked' = "interrupt" /\ UNCHANGED interrupt
       ELSE interrupt' = TRUE /\ UNCHANGED panicked
  /\ UNCHANGED <<farVars, status, statusChClosed, done, grpVars, mapVars, goVars,
                 prodVars, hVars, wVars, rVars, vtxMu>>

\* Run: pm.Go(the compile-and-solve function), then pm.Wait() is called
Run ==
  /\ panicked = NoPanic
  /\ fnPc = "idle"
  /\ wPc = "idle"
  /\ fnPc' = "running"
  /\ wPc' = "gwait"
  /\ UNCHANGED <<farVars, mgrVars, grpVars, mapVars, jobPc, fwdPc, fwdBuf, taskPc,
                 prodVars, hVars, waitErr, rVars, vtxMu, panicked>>

\* The client's function returns e; its deferred pm.Release() runs first
FnReturn(e) ==
  /\ panicked = NoPanic
  /\ fnPc = "running"
  /\ IF interrupt
       THEN /\ panicked' = "interrupt"
            /\ UNCHANGED <<interrupt, grpVars, goVars>>
       ELSE /\ interrupt' = TRUE
            /\ fnPc' = "returned"
            /\ Returned(e)
            /\ UNCHANGED <<panicked, jobPc, fwdPc, fwdBuf, taskPc>>
  /\ UNCHANGED <<farVars, status, statusChClosed, done, mapVars, prodVars, hVars,
                 wVars, rVars, vtxMu>>

\* manager.NewJob: the job, and the goroutine that offers it on jobCh
NewJob(j) ==
  /\ panicked = NoPanic
  /\ CanSubmit
  /\ jobPc[j] = "idle"
  /\ jobPc' = [jobPc EXCEPT ![j] = "send"]
  /\ UNCHANGED <<farVars, mgrVars, grpVars, mapVars, fnPc, fwdPc, fwdBuf, taskPc,
                 prodVars, hVars, wVars, rVars, vtxMu, panicked>>

\* The select of the goroutines NewJob and NewTask submit: what they return
\* when the context is done, when interrupt is closed, when the send is taken
SendSelect(e) ==
  \/ ctxErr # NoErr /\ e = ctxErr
  \/ interrupt /\ e = NoErr
  \/ e = NoErr

\* The goroutine of NewJob returns
JobReturn(j) ==
  /\ panicked = NoPanic
  /\ jobPc[j] = "send"
  /\ \E e \in {NoErr, ErrCanceled} :
       /\ SendSelect(e)
       /\ Returned(e)
  /\ jobPc' = [jobPc EXCEPT ![j] = "returned"]
  /\ UNCHANGED <<farVars, mgrVars, mapVars, fnPc, fwdPc, fwdBuf, taskPc, prodVars,
                 hVars, wVars, rVars, vtxMu, panicked>>

\* The goroutine of NewTask returns
TaskReturn(d) ==
  /\ panicked = NoPanic
  /\ taskPc[d] = "send"
  /\ \E e \in {NoErr, ErrCanceled} :
       /\ SendSelect(e)
       /\ Returned(e)
  /\ taskPc' = [taskPc EXCEPT ![d] = "returned"]
  /\ UNCHANGED <<farVars, mgrVars, mapVars, fnPc, jobPc, fwdPc, fwdBuf, prodVars,
                 hVars, wVars, rVars, vtxMu, panicked>>

\* job.NewChannel: the channel, and the goroutine that forwards from it
NewChannel(j) ==
  /\ panicked = NoPanic
  /\ CanSubmit
  /\ jobPc[j] # "idle"
  /\ fwdPc[j] = "idle"
  /\ fwdPc' = [fwdPc EXCEPT ![j] = "select"]
  /\ UNCHANGED <<farVars, mgrVars, grpVars, mapVars, fnPc, jobPc, fwdBuf, taskPc,
                 prodVars, hVars, wVars, rVars, vtxMu, panicked>>

\* Digests are interchangeable: the first one a producer ever sends is "d1"
FirstDigest(s) ==
  (\A j \in Jobs : nSent[j] = 0) => \A i \in 1..Len(s) : s[i].digest = "d1"

\* A forwarder that takes the next status while it still holds one
FwdRecvDrop(j, s) ==
  /\ panicked = NoPanic
  /\ fwdPc[j] \in {"select", "send"}
  /\ nSent[j] < MaxStatuses
  /\ FirstDigest(s)
  /\ fwdPc' = [fwdPc EXCEPT ![j] = "send"]
  /\ fwdBuf' = [fwdBuf EXCEPT ![j] = [seq |-> nSent[j] + 1, vertexes |-> s]]
  /\ nSent' = [nSent EXCEPT ![j] = @ + 1]
  /\ UNCHANGED <<farVars, mgrVars, grpVars, mapVars, fnPc, jobPc, taskPc, hVars,
                 wVars, rVars, vtxMu, panicked>>

\* NewChannel's goroutine, case s, ok := <-statusCh with ok: the producer's
\* send of its next status completes and the goroutine holds it
FwdRecv(j, s) ==
  /\ panicked = NoPanic
  /\ fwdPc[j] = "select"
  /\ nSent[j] < MaxStatuses
  /\ FirstDigest(s)
  /\ fwdPc' = [fwdPc EXCEPT ![j] = "send"]
  /\ fwdBuf' = [fwdBuf EXCEPT ![j] = [seq |-> nSent[j] + 1, vertexes |-> s]]
  /\ nSent' = [nSent EXCEPT ![j] = @ + 1]
  /\ UNCHANGED <<farVars, mgrVars, grpVars, mapVars, fnPc, jobPc, taskPc, hVars,
                 wVars, rVars, vtxMu, panicked>>

\* NewChannel's goroutine, case !ok: the producer closed the channel
FwdClosed(j) ==
  /\ panicked = NoPanic
  /\ fwdPc[j] = "select"
  /\ fwdPc' = [fwdPc EXCEPT ![j] = "returned"]
  /\ Returned(NoErr)
  /\ UNCHANGED <<farVars, mgrVars, mapVars, fnPc, jobPc, fwdBuf, taskPc, prodVars,
                 hVars, wVars, rVars, vtxMu, panicked>>

\* NewChannel's goroutine, case <-j.m.ctx.Done()
FwdCanceled(j) ==
  /\ panicked = NoPanic
  /\ fwdPc[j] = "select"
  /\ ctxErr # NoErr
  /\ fwdPc' = [fwdPc EXCEPT ![j] = "returned"]
  /\ Returned(ctxErr)
  /\ UNCHANGED <<farVars, mgrVars, mapVars, fnPc, jobPc, fwdBuf, taskPc, prodVars,
                 hVars, wVars, rVars, vtxMu, panicked>>

\* The context NewManager was given is cancelled
ParentCancel ==
  /\ panicked = NoPanic
  /\ ctxErr = NoErr
  /\ ctxErr' = ErrCanceled
  /\ UNCHANGED <<farVars, mgrVars, gErr, firstRet, lastRet, mapVars, goVars, prodVars, hVars,
                 wVars, rVars, vtxMu, panicked>>

\* --------------------------------------------------------------- task
\* manager.newTask
newTask(id) == [id |-> id, status |-> TaskCreated, description |-> ""]

\* task.SetDescription, called when vtx.Name is not empty
SetDescription(t, name) ==
  IF name # "" THEN [t EXCEPT !.description = name] ELSE t

\* task.Start: the error it returns
StartErr(t) ==
  IF t.status # TaskCreated THEN ErrTaskStatus(t.status) ELSE NoErr

\* task.Start: the task it leaves
Start(t) ==
  IF t.status # TaskCreated THEN t ELSE [t EXCEPT !.status = TaskRunning]

\* task.Complete, with the error handleStatus derives from vtx.Error:
\* nil, context.Canceled when the text holds "context canceled", or the text
Complete(t, vtxError) ==
  IF vtxError # NoErr
    THEN IF Contains(vtxError, ErrCanceled)
           THEN [t EXCEPT !.status = TaskCanceled]
           ELSE [t EXCEPT !.status = TaskErrored]
    ELSE [t EXCEPT !.status = TaskCompleted]

\* ------------------------------------------------------- handleStatus
\* solveStatus, ok := <-m.statusCh, taking the status a forwarder offers
HRecv(j) ==
  /\ panicked = NoPanic
  /\ hPc = "recv"
  /\ fwdPc[j] = "send"
  /\ hCur' = [job |-> j, seq |-> fwdBuf[j].seq, vertexes |-> fwdBuf[j].vertexes]
  /\ hIdx' = 1
  /\ hPc' = IF Len(fwdBuf[j].vertexes) = 0 THEN "recv" ELSE "lock"
  /\ nRecv' = [nRecv EXCEPT ![j] = @ + 1]
  /\ fwdPc' = [fwdPc EXCEPT ![j] = "select"]
  /\ fwdBuf' = [fwdBuf EXCEPT ![j] = NoStatus]
  /\ UNCHANGED <<farVars, mgrVars, grpVars, mapVars, fnPc, jobPc, taskPc, prodVars,
                 hPrev, hErr, lastFold, wVars, rVars, vtxMu, panicked>>

\* solveStatus, ok := <-m.statusCh with !ok: handleStatus returns nil
HClosed ==
  /\ panicked = NoPanic
  /\ hPc = "recv"
  /\ statusChClosed
  /\ \A j \in Jobs : fwdPc[j] # "send"
  /\ hPc' = "ret"
  /\ hErr' = NoErr
  /\ UNCHANGED <<farVars, mgrVars, grpVars, mapVars, goVars, prodVars, hCur, hIdx,
                 hPrev, lastFold, nRecv, wVars, rVars, vtxMu, panicked>>

\* m.vtxMu.Lock()
HLock ==
  /\ panicked = NoPanic
  /\ hPc = "lock"
  /\ ~vtxMu.writer
  /\ vtxMu.readers = 0
  /\ vtxMu' = [vtxMu EXCEPT !.writer = TRUE]
  /\ hPc' = "vtx"
  /\ UNCHANGED <<farVars, mgrVars, grpVars, mapVars, goVars, prodVars, hCur, hIdx,
                 hPrev, hErr, lastFold, nRecv, wVars, rVars, panicked>>

\* prev := m.vtxByDigest[vtx.Digest]; m.vtxByDigest[vtx.Digest] = vtx;
\* m.vtxMu.Unlock()
HVtx ==
  /\ panicked = NoPanic
  /\ hPc = "vtx"
  /\ LET vtx == hCur.vertexes[hIdx] IN
       /\ hPrev' = vtxByDigest[vtx.digest]
       /\ vtxByDigest' = [vtxByDigest EXCEPT ![vtx.digest] = vtx]
  /\ vtxMu' = [vtxMu EXCEPT !.writer = FALSE]
  /\ hPc' = "task"
  /\ UNCHANGED <<farVars, mgrVars, grpVars, taskByID, jobTasks, goVars, prodVars,
                 hCur, hIdx, hErr, lastFold, nRecv, wVars, rVars, panicked>>

\* handleStatus: after one vertex, the next vertex or the next status
HNext(pc) ==
  IF pc # "next"
    THEN hPc' = pc /\ UNCHANGED <<hCur, hIdx>>
    ELSE IF hIdx < Len(hCur.vertexes)
           THEN hPc' = "lock" /\ hIdx' = hIdx + 1 /\ UNCHANGED hCur
           ELSE hPc' = "recv" /\ hCur' = NoStatus /\ hIdx' = 0

\* The task lookup, job.NewTask for an id m.taskByID lacks (which submits the
\* goroutine offering the task on taskCh), SetDescription and Start, whose
\* error handleStatus returns
HTask ==
  /\ panicked = NoPanic
  /\ hPc = "task"
  /\ LET vtx == hCur.vertexes[hIdx]
         id == vtx.digest
         ok == taskByID[id] # NoTask
         t0 == IF ok THEN taskByID[id] ELSE newTask(id)
         t1 == SetDescription(t0, vtx.name)
         starts == vtx.started /\ (hPrev = NoVtx \/ ~hPrev.started)
         err == IF starts THEN StartErr(t1) ELSE NoErr
     IN
       /\ taskByID' = [taskByID EXCEPT ![id] = IF starts THEN Start(t1) ELSE t1]
       /\ jobTasks' = IF ok THEN jobTasks
                      ELSE [jobTasks EXCEPT ![hCur.job] = @ \cup {id}]
       /\ taskPc' = IF ok THEN taskPc ELSE [taskPc EXCEPT ![id] = "send"]
       /\ lastFold' = [lastFold EXCEPT ![hCur.job] = <<hCur.seq, hIdx>>]
       /\ hErr' = err
       /\ IF err # NoErr
            THEN hPc' = "ret" /\ hCur' = NoStatus /\ hIdx' = 0
            ELSE HNext(IF vtx.completed THEN "complete" ELSE "next")
  /\ hPrev' = NoVtx
  /\ UNCHANGED <<farVars, mgrVars, grpVars, vtxByDigest, fnPc, jobPc, fwdPc, fwdBuf,
                 prodVars, nRecv, wVars, rVars, vtxMu, panicked>>

\* if vtx.Completed != nil: task.Complete with the error of vtx.Error
HComplete ==
  /\ panicked = NoPanic
  /\ hPc = "complete"
  /\ LET vtx == hCur.vertexes[hIdx] IN
       taskByID' = [taskByID EXCEPT ![vtx.digest] = Complete(@, vtx.error)]
  /\ HNext("next")
  /\ UNCHANGED <<farVars, mgrVars, grpVars, vtxByDigest, jobTasks, goVars, prodVars,
                 hPrev, hErr, lastFold, nRecv, wVars, rVars, vtxMu, panicked>>

\* --------------------------------------------------------------- Wait
\* The build status Wait sets for the error it returns
WaitStatus(err) ==
  IF err # NoErr
    THEN IF ~Contains(err, ErrCanceled) THEN BuildFailed ELSE BuildCanceled
    ELSE BuildFinished

\* err := m.g.Wait() returns once every submitted function has returned (and
\* cancels the shared context); close(m.statusCh)
WaitGroup ==
  /\ panicked = NoPanic
  /\ wPc = "gwait"
  /\ Live = 0
  /\ waitErr' = gErr
  /\ ctxErr' = IF ctxErr = NoErr THEN ErrCanceled ELSE ctxErr
  /\ statusChClosed' = TRUE
  /\ wPc' = "recv"
  /\ UNCHANGED <<farVars, status, interrupt, done, gErr, firstRet, lastRet, mapVars, goVars,
                 prodVars, hVars, rVars, vtxMu, panicked>>

\* handleErr := <-m.errCh, taking what handleStatus returned; m.status is set
\* and the deferred close(m.done) runs
WaitRecv ==
  /\ panicked = NoPanic
  /\ wPc = "recv"
  /\ hPc = "ret"
  /\ hPc' = "exited"
  /\ LET err == IF waitErr = NoErr THEN hErr ELSE waitErr IN
       /\ status' = WaitStatus(err)
       /\ waitErr' = err
  /\ done' = TRUE
  /\ wPc' = "returned"
  /\ UNCHANGED <<farVars, interrupt, statusChClosed, grpVars, mapVars, goVars,
                 prodVars, hCur, hIdx, hPrev, hErr, lastFold, nRecv, rVars,
                 vtxMu, panicked>>

\* manager.Wait is called again: close(m.statusCh) of the closed channel panics
WaitAgain ==
  /\ panicked = NoPanic
  /\ wPc = "returned"
  /\ panicked' = "statusCh"
  /\ UNCHANGED <<farVars, mgrVars, grpVars, mapVars, goVars, prodVars, hVars, wVars, rVars,
                 vtxMu>>

\* ----------------------------------------------------- Current, Total
\* manager.Current: the vertices completed without an error
Current(vtxs) ==
  Cardinality({d \in Digests :
    vtxs[d] # NoVtx /\ vtxs[d].completed /\ vtxs[d].error = NoErr})

\* A Total that trusts the task-map length alone
TotalTasks(min, vtxs) == min

\* A Total that keeps the smaller of the two sizes
TotalMin(min, vtxs) ==
  LET n == Cardinality({d \in Digests : vtxs[d] # NoVtx}) IN
    IF n < min THEN n ELSE min

\* manager.Total, min being what len(m.taskByID) gave
Total(min, vtxs) ==
  LET n == Cardinality({d \in Digests : vtxs[d] # NoVtx}) IN
    IF n > min THEN n ELSE min

\* len(m.taskByID)
LenTasks == Cardinality({d \in Digests : taskByID[d] # NoTask})

\* TUI.View runs pm.Current() * 100 / pm.Total() on the UI goroutine.
\* Current: m.vtxMu.RLock()
ViewCurrent ==
  /\ panicked = NoPanic
  /\ rPc = "idle"
  /\ ~vtxMu.writer
  /\ vtxMu' = [vtxMu EXCEPT !.readers = @ + 1]
  /\ rPc' = "cur"
  /\ UNCHANGED <<farVars, mgrVars, grpVars, mapVars, goVars, prodVars, hVars, wVars,
                 rCur, rMin, tuiVars, panicked>>

\* Current: the sum over m.vtxByDigest; m.vtxMu.RUnlock()
CurrentRead ==
  /\ panicked = NoPanic
  /\ rPc = "cur"
  /\ rCur' = Current(vtxByDigest)
  /\ vtxMu' = [vtxMu EXCEPT !.readers = @ - 1]
  /\ rPc' = "totlen"
  /\ UNCHANGED <<farVars, mgrVars, grpVars, mapVars, goVars, prodVars, hVars, wVars,
                 rMin, tuiVars, panicked>>

\* Total: min := len(m.taskByID), read without a lock while handleStatus may
\* write the map, so any length the map has had may be read; m.vtxMu.RLock()
TotalLen ==
  /\ panicked = NoPanic
  /\ rPc = "totlen"
  /\ ~vtxMu.writer
  /\ rMin' \in 0..LenTasks
  /\ vtxMu' = [vtxMu EXCEPT !.readers = @ + 1]
  /\ rPc' = "tot"
  /\ UNCHANGED <<farVars, mgrVars, grpVars, mapVars, goVars, prodVars, hVars, wVars,
                 rCur, tuiVars, panicked>>

\* Total: the maximum with len(m.vtxByDigest); m.vtxMu.RUnlock(); View renders
TotalRead ==
  /\ panicked = NoPanic
  /\ rPc = "tot"
  /\ vtxMu' = [vtxMu EXCEPT !.readers = @ - 1]
  /\ rPc' = "idle"
  /\ rCur' = 0
  /\ rMin' = 0
  /\ UNCHANGED <<farVars, mgrVars, grpVars, mapVars, goVars, prodVars, hVars, wVars,
                 tuiVars, panicked>>

\* ---------------------------------------------------- Run and its TUI
\* Run: the TUI goroutine is started, pm.Go submits the compile-and-solve
\* function, pm.Wait() is called; the deferred <-done comes last
RunTui ==
  /\ panicked = NoPanic
  /\ runPc = "idle"
  /\ fnPc = "idle"
  /\ wPc = "idle"
  /\ runPc' = "wait"
  /\ tuiPc' = "new"
  /\ fnPc' = "running"
  /\ wPc' = "gwait"
  /\ UNCHANGED <<runCtx, dbgVars, chkVars, auxVars, mgrVars, grpVars, mapVars, jobPc, fwdPc,
                 fwdBuf, taskPc, prodVars, hVars, waitErr, rVars, vtxMu,
                 panicked>>

\* A function that returns every error of Compile as it is
FnResultRaw(err) == err

\* The function Run submits returns nil for ErrDebugExit and otherwise the
\* error of Compile or Solve
FnResult(err) == IF err = ErrDebugExit THEN NoErr ELSE err

\* What hlb.Compile and solveReq.Solve end with when the debugger has not
\* ended them
CompileErrors == {NoErr, ErrSolve, ErrCanceled}

\* The function Run submits returns: with the debugger's error when the hook
\* returned one (emitFuncDecl hands it on as it is)
CompileReturn ==
  /\ dbgPc \in {"idle", "exit"}
  /\ \E c \in CompileErrors \cup {ErrDebugExit} :
       /\ (dbgPc = "exit") = (c = ErrDebugExit)
       /\ FnReturn(FnResult(c))

\* The goroutine of NewJob returns by ctx.Done() or by interrupt
JobQuit(j) ==
  /\ panicked = NoPanic
  /\ jobPc[j] = "send"
  /\ \/ ctxErr # NoErr /\ Returned(ctxErr)
     \/ interrupt /\ Returned(NoErr)
  /\ jobPc' = [jobPc EXCEPT ![j] = "returned"]
  /\ UNCHANGED <<farVars, chkVars, auxVars, mgrVars, mapVars, fnPc, fwdPc, fwdBuf, taskPc,
                 prodVars, hVars, wVars, rVars, vtxMu, panicked>>

\* tui.New: case j := <-t.pm.Jobs(), and the goroutine ranging over
\* t.pm.Jobs() afterwards: the send of NewJob's goroutine is taken and the
\* job's model, with no tasks, is appended to t.jobs
TuiJob(j) ==
  /\ panicked = NoPanic
  /\ tuiPc \in {"new", "running", "quit"}
  /\ jobPc[j] = "send"
  /\ Returned(NoErr)
  /\ jobPc' = [jobPc EXCEPT ![j] = "returned"]
  /\ tuiPc' = IF tuiPc = "new" THEN "running" ELSE tuiPc
  /\ tuiJobs' = tuiJobs \cup {j}
  /\ UNCHANGED <<runCtx, runPc, dbgVars, chkVars, auxVars, mgrVars, mapVars, fnPc, fwdPc,
                 fwdBuf, taskPc, prodVars, hVars, wVars, rPc, rCur, rMin,
                 tuiTasks, jobModelTasks, vtxMu, panicked>>

\* job.Depends(id) as the TUI's goroutine may read it: j.taskByID is written
\* by handleStatus (NewTask, after the goroutine that sends the task was
\* submitted) with nothing ordering the write before this read, so an entry
\* that is there may or may not be seen; one that is not there is not seen
DependsRead(js, d) == SUBSET {j \in js : d \in jobTasks[j]}

\* tui.New: the goroutine ranging over t.pm.Tasks(), started once the first
\* job was received: the send of NewTask's goroutine is taken, the task's
\* model is appended to j.tasks of every job of t.jobs that Depends on its id,
\* and to t.tasks
TuiTask(d) ==
  /\ panicked = NoPanic
  /\ tuiPc \in {"running", "quit"}
  /\ taskPc[d] = "send"
  /\ Returned(NoErr)
  /\ taskPc' = [taskPc EXCEPT ![d] = "returned"]
  /\ \E deps \in DependsRead(tuiJobs, d) :
       jobModelTasks' =
         [j \in Jobs |-> IF j \in deps THEN jobModelTasks[j] \cup {d}
                                       ELSE jobModelTasks[j]]
  /\ tuiTasks' = tuiTasks \cup {d}
  /\ UNCHANGED <<farVars, mgrVars, mapVars, fnPc, jobPc, fwdPc, fwdBuf, prodVars,
                 hVars, wVars, rPc, rCur, rMin, tuiJobs, vtxMu, panicked>>

\* tui.New: case <-ctx.Done(); the goroutine returns and closes done
TuiNewCanceled ==
  /\ panicked = NoPanic
  /\ tuiPc = "new"
  /\ runCtx
  /\ tuiPc' = "failed"
  /\ UNCHANGED <<runCtx, runPc, dbgVars, chkVars, auxVars, mgrVars, grpVars, mapVars, goVars,
                 prodVars, hVars, wVars, rVars, vtxMu, panicked>>

\* TUI.Update: the key q: tea.Quit, p.Start() returns and the goroutine
\* closes done
KeyQ ==
  /\ panicked = NoPanic
  /\ tuiPc = "running"
  /\ tuiPc' = "quit"
  /\ UNCHANGED <<runCtx, runPc, dbgVars, chkVars, auxVars, mgrVars, grpVars, mapVars, goVars,
                 prodVars, hVars, wVars, rVars, vtxMu, panicked>>

\* TUI.done and TUI.Update: pm.Done() is closed, doneMsg: tea.Quit, p.Start()
\* returns and the goroutine closes done
TuiQuit ==
  /\ panicked = NoPanic
  /\ tuiPc = "running"
  /\ done
  /\ tuiPc' = "quit"
  /\ UNCHANGED <<runCtx, runPc, dbgVars, chkVars, auxVars, mgrVars, grpVars, mapVars, goVars,
                 prodVars, hVars, wVars, rVars, vtxMu, panicked>>

\* TUI.Update: ctrl+c calls t.cancel()
CtrlC ==
  /\ panicked = NoPanic
  /\ tuiPc = "running"
  /\ ~runCtx
  /\ runCtx' = TRUE
  /\ UNCHANGED <<runPc, tuiPc, dbgVars, chkVars, auxVars, mgrVars, grpVars, mapVars, goVars,
                 prodVars, hVars, wVars, rVars, vtxMu, panicked>>

\* The context Run was given is cancelled: m.ctx and the TUI's context, both
\* derived from it, are done
RunParentCancel ==
  /\ panicked = NoPanic
  /\ ~runCtx
  /\ runCtx' = TRUE
  /\ ctxErr' = IF ctxErr = NoErr THEN ErrCanceled ELSE ctxErr
  /\ UNCHANGED <<runPc, tuiPc, dbgVars, chkVars, auxVars, mgrVars, gErr, firstRet, lastRet,
                 mapVars, goVars, prodVars, hVars, wVars, rVars, vtxMu,
                 panicked>>

\* Run returns: pm.Wait() returned and the deferred <-done is through
RunReturn ==
  /\ panicked = NoPanic
  /\ runPc = "wait"
  /\ wPc = "returned"
  /\ tuiPc \in {"failed", "quit"}
  /\ runPc' = "returned"
  /\ UNCHANGED <<runCtx, tuiPc, dbgVars, chkVars, auxVars, mgrVars, grpVars, mapVars, goVars,
                 prodVars, hVars, wVars, rVars, vtxMu, panicked>>

\* ------------------------------------------------------------ debugger
\* The snapshot{scope, node, ret} the generator hands to its n-th call of the
\* hook: the module scope first, a function scope afterwards
Snap(n) ==
  [scope |-> IF n = 1 THEN "module" ELSE "fun", node |-> n, ret |-> n - 1]

\* The snapshot debug() is presenting: history[historyIndex]
Presented == history[historyIndex + 1]

\* The argument the generator's n-th call of the hook was entered with
\* (the first call is the module's and has none)
ArgData(n) == IF n = 1 THEN 0 ELSE n

\* The contents of the scope a snapshot refers to, as they are now
ScopeNow(snap) == IF snap.scope = "fun" THEN scopeData ELSE 0

\* A breakpoint: Func and Call, "" for a nil Call
Breakpoint(func, call) == [func |-> func, call |-> call]

\* findStaticBreakpoints(mod): the breakpoint calls of the module
findStaticBreakpoints(prog) ==
  IF \E n \in 1..Len(prog) : prog[n] = Hook("f", "breakpoint")
    THEN <<Breakpoint("f", "breakpoint")>>
    ELSE <<>>

\* debug(): no breakpoint stops a continued run
MatchNone(bps, h) == FALSE

\* debug(): a breakpoint of bps is at the node of hook call h, a function
\* breakpoint at the function, a call breakpoint at the call statement
MatchBreakpoint(bps, h) ==
  /\ h.fn # "module"
  /\ \E k \in 1..Len(bps) : bps[k].func = h.fn /\ bps[k].call = h.call

\* debug(s) for the snapshot of the n-th hook call, up to the prompt or to
\* its return without one
Debug(n) ==
  LET h == program[n]
      load == h.fn = "module" /\ Len(staticBreakpoints) = 0
      static == IF load THEN findStaticBreakpoints(program)
                ELSE staticBreakpoints
      bps == IF load THEN breakpoints \o static ELSE breakpoints
      f == IF h.fn = "module" THEN fun ELSE h.fn
      c == cont /\ ~MatchBreakpoint(bps, h)
      skip == next # "nil" /\ next # f
  IN /\ staticBreakpoints' = static
     /\ breakpoints' = bps
     /\ fun' = f
     /\ cont' = c
     /\ next' = IF skip THEN next ELSE "nil"
     /\ dbgPc' = IF skip \/ c THEN "ret" ELSE "prompt"
     /\ dbgOut' = [cmd |-> dbgOut.cmd, skipped |-> skip \/ c,
                   listed |-> h.fn # "module" /\ ~c]
     /\ UNCHANGED program

\* The program to debug is compiled
DbgLoad ==
  /\ panicked = NoPanic
  /\ fnPc = "idle"
  /\ history = <<>>
  /\ program = DefaultProgram
  /\ program' \in Programs
  /\ UNCHANGED <<history, historyIndex, reverseStep, cont, dbgPc, dbgLoop,
                 dbgTrail, scopeData, fun, next, breakpoints,
                 staticBreakpoints, dbgOut, uiVars, chkVars, auxVars,
                 mgrVars, grpVars, mapVars, goVars, prodVars, hVars, wVars,
                 rVars, vtxMu, panicked>>

\* emitFuncDecl: parameterizedScope inserts the argument into fun.Scope, then
\* the hook is called with fun.Scope: historyIndex++, the snapshot is appended
\* and debug(history[historyIndex]) prompts, or returns at once after continue
HookCall ==
  /\ panicked = NoPanic
  /\ fnPc = "running"
  /\ dbgPc = "idle"
  /\ Len(history) < MaxSteps
  /\ historyIndex' = historyIndex + 1
  /\ history' = Append(history, Snap(Len(history) + 1))
  /\ scopeData' = IF Len(history) = 0 THEN scopeData
                  ELSE ArgData(Len(history) + 1)
  /\ Debug(Len(history) + 1)
  /\ UNCHANGED <<reverseStep, dbgLoop, dbgTrail, uiVars, chkVars, auxVars, mgrVars,
                 grpVars, mapVars, goVars, prodVars, hVars, wVars, rVars,
                 vtxMu, panicked>>

\* A command is read at the prompt and debug() returns nil
AtPrompt ==
  /\ panicked = NoPanic
  /\ dbgPc = "prompt"
  /\ dbgPc' = "ret"
  /\ UNCHANGED <<history, dbgLoop, scopeData, program, fun, breakpoints,
                 staticBreakpoints, uiVars, chkVars, auxVars, mgrVars, grpVars, mapVars, goVars,
                 prodVars, hVars, wVars, rVars, vtxMu, panicked>>

\* step
DbgStep ==
  /\ AtPrompt
  /\ dbgTrail' = IF ~dbgLoop /\ dbgTrail[1] >= 0 /\ dbgTrail[2] = 0
                   THEN <<dbgTrail[1] + 1, 0>>
                   ELSE <<-1, -1>>
  /\ dbgOut' = [dbgOut EXCEPT !.cmd = "step"]
  /\ UNCHANGED <<historyIndex, reverseStep, cont, next>>

\* continue
DbgContinue ==
  /\ AtPrompt
  /\ cont' = TRUE
  /\ dbgTrail' = <<-1, -1>>
  /\ dbgOut' = [dbgOut EXCEPT !.cmd = "continue"]
  /\ UNCHANGED <<historyIndex, reverseStep, next>>

\* next
DbgNext ==
  /\ AtPrompt
  /\ next' = fun
  /\ dbgTrail' = <<-1, -1>>
  /\ dbgOut' = [dbgOut EXCEPT !.cmd = "next"]
  /\ UNCHANGED <<historyIndex, reverseStep, cont>>

\* break at the node presented, a function or a call statement: the
\* debugger stays at its prompt
DbgBreak ==
  /\ panicked = NoPanic
  /\ dbgPc = "prompt"
  /\ Len(breakpoints) < MaxBreaks
  /\ LET h == program[Presented.node] IN
       /\ h.fn # "module"
       /\ breakpoints' =
            IF h.call = "" THEN Append(breakpoints, Breakpoint(h.fn, ""))
            ELSE IF h.call = "breakpoint" THEN breakpoints
            ELSE Append(breakpoints, Breakpoint(fun, h.call))
  /\ dbgOut' = [dbgOut EXCEPT !.cmd = "break"]
  /\ UNCHANGED <<history, historyIndex, reverseStep, cont, dbgPc, dbgLoop,
                 dbgTrail, scopeData, program, fun, next, staticBreakpoints,
                 uiVars, chkVars, auxVars, mgrVars, grpVars, mapVars, goVars,
                 prodVars, hVars, wVars, rVars, vtxMu, panicked>>

\* clear: args is the command split in words, args[0] is "clear"; the
\* debugger stays at its prompt
DbgClear ==
  /\ panicked = NoPanic
  /\ dbgPc = "prompt"
  /\ LET args == <<"clear">> IN
       breakpoints' = IF Len(args) = 0 THEN staticBreakpoints ELSE breakpoints
  /\ dbgOut' = [dbgOut EXCEPT !.cmd = "clear"]
  /\ UNCHANGED <<history, historyIndex, reverseStep, cont, dbgPc, dbgLoop,
                 dbgTrail, scopeData, program, fun, next, staticBreakpoints,
                 uiVars, chkVars, auxVars, mgrVars, grpVars, mapVars, goVars,
                 prodVars, hVars, wVars, rVars, vtxMu, panicked>>

\* reverse-step, when historyIndex is not 0
DbgReverse ==
  /\ AtPrompt
  /\ historyIndex # 0
  /\ reverseStep' = TRUE
  /\ dbgTrail' = IF dbgTrail[1] >= 0
                   THEN <<dbgTrail[1], dbgTrail[2] + 1>>
                   ELSE <<-1, -1>>
  /\ dbgOut' = [dbgOut EXCEPT !.cmd = "reverse-step"]
  /\ UNCHANGED <<historyIndex, cont, next>>

\* restart
DbgRestart ==
  /\ AtPrompt
  /\ reverseStep' = TRUE
  /\ historyIndex' = 1
  /\ dbgTrail' = <<-1, -1>>
  /\ dbgOut' = [dbgOut EXCEPT !.cmd = "restart"]
  /\ UNCHANGED <<cont, next>>

\* exit: debug() returns ErrDebugExit and the hook returns it
DbgExit ==
  /\ panicked = NoPanic
  /\ dbgPc = "prompt"
  /\ dbgPc' = "exit"
  /\ UNCHANGED <<history, historyIndex, reverseStep, cont, dbgLoop, dbgTrail,
                 scopeData, brkVars, uiVars, chkVars, auxVars, mgrVars, grpVars, mapVars, goVars, prodVars, hVars,
                 wVars, rVars, vtxMu, panicked>>

\* The replay loop, when after the loop the index is left where it stands
ReplayAtStay(i) ==
  IF i < Len(history)
    THEN /\ historyIndex' = i
         /\ dbgLoop' = TRUE
         /\ Debug(history[i + 1].node)
    ELSE /\ historyIndex' = i
         /\ dbgLoop' = FALSE
         /\ dbgPc' = "idle"
         /\ UNCHANGED <<cont, brkVars>>

\* The head of the replay loop at index i: debug(history[i]) while
\* i < len(history); after the loop historyIndex-- and the hook returns nil
ReplayAt(i) ==
  IF i < Len(history)
    THEN /\ historyIndex' = i
         /\ dbgLoop' = TRUE
         /\ Debug(history[i + 1].node)
    ELSE /\ historyIndex' = i - 1
         /\ dbgLoop' = FALSE
         /\ dbgPc' = "idle"
         /\ UNCHANGED <<cont, brkVars>>

\* debug() returned nil: a reverse-step moves the index back and replays, a
\* step inside the replay moves it forward, a step outside ends the hook
HookResume ==
  /\ panicked = NoPanic
  /\ dbgPc = "ret"
  /\ reverseStep' = FALSE
  /\ IF reverseStep
       THEN ReplayAt(historyIndex - 1)
       ELSE IF dbgLoop
              THEN ReplayAt(historyIndex + 1)
              ELSE /\ dbgPc' = "idle"
                   /\ UNCHANGED <<historyIndex, dbgLoop, cont, brkVars>>
  /\ UNCHANGED <<history, dbgTrail, scopeData, uiVars, chkVars, auxVars, mgrVars, grpVars, mapVars,
                 goVars, prodVars, hVars, wVars, rVars, vtxMu, panicked>>

\* ------------------------------------------------------------ builtins
\* parser.NewField(typ, name, variadic)
NewField(typ, name, variadic) ==
  [type |-> typ, name |-> name, variadic |-> variadic]

Sources == {"scratch", "image", "http", "git", "local", "generate"}
Ops ==
  {"shell", "run", "env", "dir", "user", "entrypoint", "mkdir", "mkfile",
   "rm", "copy"}
Debugs == {"breakpoint"}
CommonOptions == {"no-cache"}

\* The option name lists, by operation
OptionLists ==
  [image |-> {"resolve"},
   http |-> {"checksum", "chmod", "filename"},
   git |-> {"keepGitDir"},
   local |-> {"includePatterns", "excludePatterns", "followPaths"},
   generate |-> {"frontendInput", "frontendOpt"},
   run |-> {"readonlyRootfs", "env", "dir", "user", "network", "security",
            "host", "ssh", "secret", "mount"},
   ssh |-> {"target", "id", "uid", "gid", "mode", "optional"},
   secret |-> {"id", "uid", "gid", "mode", "optional"},
   mount |-> {"readonly", "tmpfs", "sourcePath", "cache"},
   mkdir |-> {"createParents", "chown", "createdTime"},
   mkfile |-> {"chown", "createdTime"},
   rm |-> {"allowNotFound", "allowWildcard"},
   copy |-> {"followSymlinks", "contentsOnly", "unpack", "createDestPath",
             "allowWildcard", "allowEmptyWildcard", "chown", "createdTime"}]

\* KeywordsByName[op] = flatMap(CommonOptions, <op>Options); no entry gives nil
KeywordsByName(op) ==
  IF op \in DOMAIN OptionLists THEN CommonOptions \cup OptionLists[op] ELSE {}

\* BuiltinSources[typ]
BuiltinSources(typ) ==
  IF typ = "fs" THEN Sources
  ELSE IF typ = "string" THEN {"value", "format"}
  ELSE {}

\* fmt.Sprintf("%s::%s", parser.Option, op)
OptionType(op) == <<"option", op>>

\* parser.NewField(typ, name, false)
Param(typ, name) == NewField(typ, name, FALSE)

\* parser.NewField(parser.Str, name, true)
Variadic(name) == NewField("string", name, TRUE)

\* Builtins[parser.Filesystem]
FsBuiltins ==
  [breakpoint |-> <<>>, scratch |-> <<>>,
   image |-> <<Param("string", "ref")>>,
   http |-> <<Param("string", "url")>>,
   git |-> <<Param("string", "remote"), Param("string", "ref")>>,
   local |-> <<Param("string", "path")>>,
   generate |-> <<Param("fs", "frontend")>>,
   shell |-> <<Variadic("arg")>>,
   run |-> <<Variadic("arg")>>,
   env |-> <<Param("string", "key"), Param("string", "value")>>,
   dir |-> <<Param("string", "path")>>,
   user |-> <<Param("string", "name")>>,
   entrypoint |-> <<Variadic("command")>>,
   mkdir |-> <<Param("string", "path"), Param("int", "filemode")>>,
   mkfile |-> <<Param("string", "path"), Param("int", "filemode"), Param("string", "content")>>,
   rm |-> <<Param("string", "path")>>,
   copy |-> <<Param("fs", "input"), Param("string", "src"), Param("string", "dest")>>]

\* Builtins[parser.Str]
StrBuiltins ==
  [value |-> <<Param("string", "literal")>>,
   format |-> <<Param("string", "format"), Variadic("values")>>]

\* Builtins[parser.Option<Op>]
OptionBuiltins ==
  [image |-> [resolve |-> <<>>],
   http |-> [checksum |-> <<Param("string", "digest")>>, chmod |-> <<Param("int", "filemode")>>,
             filename |-> <<Param("string", "name")>>],
   git |-> [keepGitDir |-> <<>>],
   local |-> [includePatterns |-> <<Variadic("patterns")>>,
              excludePatterns |-> <<Variadic("patterns")>>,
              followPaths |-> <<Variadic("paths")>>],
   generate |-> [frontendInput |-> <<Param("string", "key"), Param("fs", "value")>>,
                 frontendOpt |-> <<Param("string", "key"), Param("string", "value")>>],
   run |-> [readonlyRootfs |-> <<>>,
            env |-> <<Param("string", "key"), Param("string", "value")>>,
            dir |-> <<Param("string", "path")>>,
            user |-> <<Param("string", "name")>>,
            network |-> <<Param("string", "networkmode")>>,
            security |-> <<Param("string", "securitymode")>>,
            host |-> <<Param("string", "hostname"), Param("string", "address")>>,
            ssh |-> <<>>,
            secret |-> <<Param("string", "mountpoint")>>,
            mount |-> <<Param("fs", "input"), Param("string", "mountpoint")>>],
   ssh |-> [target |-> <<Param("string", "path")>>, id |-> <<Param("string", "cacheid")>>,
            uid |-> <<Param("int", "value")>>, gid |-> <<Param("int", "value")>>,
            mode |-> <<Param("int", "filemode")>>, optional |-> <<>>],
   secret |-> [id |-> <<Param("string", "cacheid")>>, uid |-> <<Param("int", "value")>>,
               gid |-> <<Param("int", "value")>>, mode |-> <<Param("int", "filemode")>>,
               optional |-> <<>>],
   mount |-> [readonly |-> <<>>, tmpfs |-> <<>>,
              sourcePath |-> <<Param("string", "path")>>,
              cache |-> <<Param("string", "cacheid"), Param("string", "cachemode")>>],
   mkdir |-> [createParents |-> <<>>, chown |-> <<Param("string", "owner")>>,
              createdTime |-> <<Param("string", "created")>>],
   mkfile |-> [chown |-> <<Param("string", "owner")>>,
               createdTime |-> <<Param("string", "created")>>],
   rm |-> [allowNotFound |-> <<>>, allowWildcards |-> <<>>],
   copy |-> [followSymlinks |-> <<>>, contentsOnly |-> <<>>,
             unpack |-> <<>>, createDestPath |-> <<>>]]

\* The names Builtins[typ] has signatures for
BuiltinNames(typ) ==
  IF typ = "fs" THEN DOMAIN FsBuiltins
  ELSE IF typ = "string" THEN DOMAIN StrBuiltins
  ELSE IF typ = "option" THEN {"no-cache"}
  ELSE IF typ[1] = "option" /\ typ[2] \in DOMAIN OptionBuiltins
         THEN DOMAIN OptionBuiltins[typ[2]]
  ELSE {}

\* Builtins[typ][name]: nil (no parameters) for a missing entry
Builtins(typ, name) ==
  IF name \notin BuiltinNames(typ) THEN <<>>
  ELSE IF typ = "fs" THEN FsBuiltins[name]
  ELSE IF typ = "string" THEN StrBuiltins[name]
  ELSE IF typ = "option" THEN <<>>
  ELSE OptionBuiltins[typ[2]][name]

\* ------------------------------------------------------------ checker
\* The declarations of the file, as scope.Lookup finds them
Decls ==
  [myfs |-> [type |-> "fs", params |-> <<>>],
   mystr |-> [type |-> "string", params |-> <<>>],
   vfs |-> [type |-> "fs", params |-> <<Param("string", "a"), Variadic("xs")>>]]

\* scope.Lookup(name) != nil
Defined(name) == name \in DOMAIN Decls

\* block.NonEmptyStmts(): the statements that are calls
NonEmptyStmts(stmts) == SelectSeq(stmts, LAMBDA st : st.kind = "call")

\* block.NumStmts()
NumStmts(stmts) == Len(NonEmptyStmts(stmts))

\* args[len(params):] with fewer arguments than fixed parameters
SliceOutOfRange(fields, args) ==
  /\ Len(fields) > 0
  /\ fields[Len(fields)].variadic
  /\ Len(args) < Len(fields) - 1

\* handleVariadicParams appending one parameter whatever the arguments
handleVariadicParamsOnce(fields, args) ==
  IF ~(Len(fields) > 0 /\ fields[Len(fields)].variadic)
    THEN [params |-> fields, fields |-> fields]
    ELSE [params |-> SubSeq(fields, 1, Len(fields) - 1)
                       \o <<NewField(fields[Len(fields)].type,
                                     fields[Len(fields)].name \o "[0]",
                                     FALSE)>>,
          fields |-> fields]

\* handleVariadicParams: the list it returns, and the caller's list after
\* it, where no argument slice is out of range
handleVariadicParams(fields, args) ==
  IF ~(Len(fields) > 0 /\ fields[Len(fields)].variadic)
    THEN [params |-> fields, fields |-> fields]
    ELSE LET variadicParam == fields[Len(fields)]
             params == SubSeq(fields, 1, Len(fields) - 1)
         IN [params |->
               params \o
                 [i \in 1..(Len(args) - Len(params)) |->
                    NewField(variadicParam.type,
                             variadicParam.name \o "[" \o ToString(i - 1)
                               \o "]",
                             FALSE)],
             fields |-> fields]

\* checkBasicLitArg(typ, lit) returns nil
checkBasicLitArg(typ, lit) == typ \in {"string", "int", "bool"} /\ lit = typ

\* The names checkCallStmt takes for builtins
CallFuncs(typ, op, index) ==
  IF typ \in {"fs", "string"}
    THEN IF index = 0 THEN BuiltinSources(typ) \cup Debugs
                      ELSE Ops \cup Debugs
    ELSE KeywordsByName(op)

\* What checkCallStmt returns, with the lists it worked on
CallResult(verdict, params, fields) ==
  [verdict |-> verdict, params |-> params, fields |-> fields]

\* checkCallStmt for the call that is statement at of its block
checkCallStmt(typ, op, index, call, at) ==
  LET builtins ==
        Builtins(IF typ = "option" THEN OptionType(op) ELSE typ, call.name)
      builtin == call.name \in CallFuncs(typ, op, index)
      fields == IF builtin THEN builtins
                ELSE IF Defined(call.name) THEN Decls[call.name].params
                ELSE <<>>
      hv == handleVariadicParams(fields, call.args)
  IN IF SliceOutOfRange(builtins, call.args)
       THEN CallResult(Panic, <<>>, builtins)
     ELSE IF ~builtin /\ ~Defined(call.name)
       THEN CallResult(Verdict("InvalidFunc", at, 0), <<>>, <<>>)
     ELSE IF SliceOutOfRange(fields, call.args)
       THEN CallResult(Panic, <<>>, fields)
     ELSE IF Len(hv.params) # Len(call.args)
       THEN CallResult(Verdict("NumArgs", at, Len(hv.params)),
                       hv.params, hv.fields)
     ELSE IF \E i \in 1..Len(call.args) :
               ~checkBasicLitArg(hv.params[i].type, call.args[i])
       THEN CallResult(Verdict("WrongArgType", at, 0), hv.params, hv.fields)
     ELSE CallResult(Nil, hv.params, hv.fields)

\* checkOptionBlockStmt: the calls of block.List from position k on
RECURSIVE checkOptionBlockStmt(_, _, _, _)
checkOptionBlockStmt(op, list, k, i) ==
  IF k > Len(list) THEN Nil
  ELSE IF list[k].kind # "call" THEN checkOptionBlockStmt(op, list, k + 1, i)
  ELSE LET err == checkCallStmt("option", op, i + 1, list[k], k).verdict
       IN IF err # Nil THEN err
          ELSE checkOptionBlockStmt(op, list, k + 1, i + 1)

\* The first non-debug call is a source of the block's type
FirstSourceOk(typ, name) ==
  \/ name \in BuiltinSources(typ)
  \/ Defined(name) /\ Decls[name].type = typ

\* The loop of checkBlockStmt over NonEmptyStmts from position k on
RECURSIVE BlockLoop(_, _, _, _, _, _)
BlockLoop(typ, op, stmts, k, i, foundSource) ==
  IF k > Len(stmts) THEN Nil
  ELSE IF stmts[k].name \in Debugs
    THEN BlockLoop(typ, op, stmts, k + 1, i, foundSource)
  ELSE IF ~foundSource /\ ~FirstSourceOk(typ, stmts[k].name)
    THEN Verdict("FirstSource", k, 0)
  ELSE IF foundSource /\ stmts[k].name \in BuiltinSources(typ)
    THEN Verdict("OnlyFirstSource", k, 0)
  ELSE LET err == checkCallStmt(typ, op, i + 1, stmts[k], k).verdict
       IN IF err # Nil THEN err
          ELSE BlockLoop(typ, op, stmts, k + 1, i + 1, TRUE)

\* checkBlockStmt looking at the first call only
checkBlockStmtFirst(block) ==
  IF block.typ = "option"
    THEN checkOptionBlockStmt(block.op, block.stmts, 1, -1)
  ELSE IF NumStmts(block.stmts) = 0 THEN Verdict("NoSource", 0, 0)
  ELSE BlockLoop(block.typ, block.op,
                 SubSeq(NonEmptyStmts(block.stmts), 1, 1), 1, -1, FALSE)

\* checkBlockStmt
checkBlockStmt(block) ==
  IF block.typ = "option"
    THEN checkOptionBlockStmt(block.op, block.stmts, 1, -1)
  ELSE IF NumStmts(block.stmts) = 0 THEN Verdict("NoSource", 0, 0)
  ELSE BlockLoop(block.typ, block.op, NonEmptyStmts(block.stmts), 1, -1,
                 FALSE)

\* The declarations checked: a block type and, for an option type, its op
BlockTypes ==
  {<<"fs", "">>, <<"string", "">>, <<"option", "image">>,
   <<"option", "http">>}

\* The statements blocks are made of
Stmts ==
  {Comment,
   Call("breakpoint", <<>>), Call("scratch", <<>>),
   Call("image", <<"string">>), Call("image", <<"string", "string">>),
   Call("run", <<"string", "string", "string">>),
   Call("env", <<"string", "int">>),
   Call("myfs", <<>>), Call("mystr", <<>>), Call("nope", <<>>),
   Call("vfs", <<>>), Call("vfs", <<"string", "string", "string">>),
   Call("value", <<"string">>),
   Call("format", <<>>), Call("format", <<"string", "string", "string">>),
   Call("resolve", <<>>), Call("checksum", <<"string">>)}

\* The blocks of at most MaxStmts statements
Blocks == UNION {[1..n -> Stmts] : n \in 0..MaxStmts}

progVars ==
  <<mgrVars, grpVars, mapVars, goVars, prodVars, hVars, wVars, rVars, uiVars,
    dbgVars, vtxMu, panicked>>

\* SemanticCheck on a function declaration: its type and its body
SemanticCheck ==
  /\ chkPc = "idle"
  /\ chkPc' = "block"
  /\ \E t \in BlockTypes : \E stmts \in Blocks :
       /\ chkBlock' = Block(t[1], t[2], stmts)
       /\ chkVerdict' = checkBlockStmt(Block(t[1], t[2], stmts))
  /\ UNCHANGED <<chkCall, chkParams, chkFields, auxVars, progVars>>

\* checkCallStmt on one call, at index 0 or later in a block of some type
CheckCall ==
  /\ chkPc = "idle"
  /\ chkPc' = "call"
  /\ \E t \in BlockTypes : \E index \in {0, 1} : \E call \in Stmts \ {Comment} :
       LET r == checkCallStmt(t[1], t[2], index, call, 1)
       IN /\ chkBlock' = Block(t[1], t[2], <<call>>)
          /\ chkCall' = [index |-> index, call |-> call]
          /\ chkVerdict' = r.verdict
          /\ chkParams' = r.params
          /\ chkFields' = r.fields
  /\ UNCHANGED <<auxVars, progVars>>

\* ------------------------------------------------------- declarations
\* The names of module scope
DeclNames == {"x", "y"}

\* A function declaration: its name, its parameter names, and the name an
\* `as` clause of a call in its body introduces ("" for none)
FuncDecls ==
  [name : DeclNames, params : {<<"p", "q">>, <<"p", "p">>},
   alias : DeclNames \cup {""}]

\* The ident of function declaration i is <<i, 0>>, of its alias <<i, 1>>
NoIdent == <<0, 0>>

\* SemanticCheck's first Inspect from declaration i on: file.Scope as the
\* ident each name is bound to, and dupDecls
RECURSIVE DeclPass(_, _, _, _)
DeclPass(file, i, scope, dupDecls) ==
  IF i > Len(file) THEN dupDecls
  ELSE IF scope[file[i].name] # NoIdent
    THEN DeclPass(file, i + 1, scope,
                  (IF Len(dupDecls) = 0 THEN <<scope[file[i].name]>>
                   ELSE dupDecls) \o <<<<i, 0>>>>)
  ELSE LET inserted == [scope EXCEPT ![file[i].name] = <<i, 0>>]
       IN DeclPass(file, i + 1,
                   IF file[i].alias = "" THEN inserted
                   ELSE [inserted EXCEPT ![file[i].alias] = <<i, 1>>],
                   dupDecls)

\* checkFieldList returns ErrDuplicateFields
checkFieldList(fields) ==
  \E i \in 1..Len(fields) : \E j \in 1..(i - 1) : fields[j] = fields[i]

\* SemanticCheck up to the body checks: the declarations, then the field
\* lists; a function with a sound field list has its body checked
SemanticDecls ==
  /\ chkPc = "idle"
  /\ chkPc' = "decls"
  /\ \E n \in 1..MaxDecls : \E file \in [1..n -> FuncDecls] :
       LET dupDecls == DeclPass(file, 1, [d \in DeclNames |-> NoIdent], <<>>)
           bad == {i \in 1..n : checkFieldList(file[i].params)}
       IN /\ declFile' = file
          /\ declErr' =
               IF Len(dupDecls) > 0
                 THEN DeclResult("DuplicateDecls", dupDecls, 0)
               ELSE IF bad # {}
                 THEN DeclResult("Semantic", <<>>, n - Cardinality(bad))
               ELSE DeclResult("nil", <<>>, n)
  /\ UNCHANGED <<chkBlock, chkCall, chkVerdict, chkParams, chkFields, chkArg,
                 genVars, rdVars, ibVars, logVars, progVars>>

\* ---------------------------------------------------------- arguments
\* The parameters of the enclosing function, as scope.Lookup finds them
Fields == [p |-> "string", f |-> "fs"]

\* checkIdentArg
checkIdentArg(typ, name) ==
  IF name \in DOMAIN Decls
    THEN IF Len(Decls[name].params) > 0 THEN Verdict("FuncArg", 1, 0) ELSE Nil
  ELSE IF name \in DOMAIN Fields
    THEN IF Fields[name] # typ THEN Verdict("WrongArgType", 1, 0) ELSE Nil
  ELSE Verdict("IdentNotDefined", 1, 0)

\* checkFuncLitArg for a literal of type name with the body args
checkFuncLitArg(typ, lit) ==
  IF lit.name # typ THEN Verdict("WrongArgType", 1, 0)
  ELSE checkBlockStmt(Block(lit.name, "", lit.args))

\* The argument expressions: identifiers, basic literals, function literals
ArgExprs ==
  {[kind |-> "ident", name |-> n, args |-> <<>>] :
     n \in {"myfs", "mystr", "vfs", "p", "f", "nope"}}
    \cup {[kind |-> "lit", name |-> n, args |-> <<>>] :
            n \in {"string", "int", "bool"}}
    \cup {[kind |-> "funclit", name |-> n, args |-> b] :
            n \in {"fs", "string"},
            b \in {<<>>, <<Call("scratch", <<>>)>>,
                   <<Call("value", <<"string">>)>>}}

\* The argument checks of checkCallStmt for one parameter type
CheckArg ==
  /\ chkPc = "idle"
  /\ chkPc' = "arg"
  /\ \E typ \in {"string", "int", "bool", "fs", "option"} : \E arg \in ArgExprs :
       /\ chkArg' = [typ |-> typ, arg |-> arg]
       /\ chkVerdict' =
            CASE arg.kind = "ident" -> checkIdentArg(typ, arg.name)
              [] arg.kind = "lit" ->
                   IF checkBasicLitArg(typ, arg.name) THEN Nil
                   ELSE Verdict("WrongArgType", 1, 0)
              [] arg.kind = "funclit" -> checkFuncLitArg(typ, arg)
  /\ UNCHANGED <<chkBlock, chkCall, chkParams, chkFields, declVars, genVars,
                 rdVars, ibVars, logVars, progVars>>

\* ---------------------------------------------------------- generator
\* The function evaluated: fs f(string p, fs q) { image p; }
Params == <<"p", "q">>

\* The argument lists of the calls evaluated: f with a string literal and
\* an fs argument, and f with one argument only. An fs argument is the
\* literal fs { scratch; } or the literal fs { f val fs { scratch; }; },
\* which calls f
GenCalls ==
  {<<[kind |-> "lit", val |-> v], x>> :
     v \in {"a", "b"},
     x \in {[kind |-> "lit", val |-> "scratch"], [kind |-> "call", val |-> "a"],
            [kind |-> "call", val |-> "b"]}}
    \cup {<<[kind |-> "lit", val |-> v]>> : v \in {"a", "b"}}

\* emitFuncDecl returns v: to the argument evaluation that called it, or out
GenReturn(v) ==
  IF Len(genStack) = 1
    THEN /\ genStack' = <<>>
         /\ genRet' = v
    ELSE /\ genStack' =
              [SubSeq(genStack, 1, Len(genStack) - 1)
                 EXCEPT ![Len(genStack) - 1].got = v]
         /\ UNCHANGED genRet

\* A call of f is evaluated
GenCall ==
  /\ genStack = <<>>
  /\ genRet = "none"
  /\ genAlias.at = 0
  /\ \E args \in GenCalls :
       genStack' = <<[args |-> args, i |-> 1, got |-> "none", pc |-> "arity"]>>
  /\ UNCHANGED <<genScope, genRet>>
  /\ UNCHANGED <<genAlias, chkVars, declVars, chkArg, rdVars, ibVars, logVars, progVars>>

\* emitFuncDecl: len(args) != len(fun.Params.List)
ArityMismatch(args, params) == Len(args) # Len(params)

\* emitFuncDecl: after the arity check the hook is called, nothing is bound
GenArityThenHook ==
  /\ genStack # <<>>
  /\ genStack[Len(genStack)].pc = "arity"
  /\ IF ArityMismatch(genStack[Len(genStack)].args, Params)
       THEN GenReturn("expected args")
       ELSE /\ genStack' = [genStack EXCEPT ![Len(genStack)].pc = "hook"]
            /\ UNCHANGED genRet
  /\ UNCHANGED genScope
  /\ UNCHANGED <<genAlias, chkVars, declVars, chkArg, rdVars, ibVars, logVars, progVars>>

\* emitFuncDecl: the arity check
GenArity ==
  /\ genStack # <<>>
  /\ genStack[Len(genStack)].pc = "arity"
  /\ IF ArityMismatch(genStack[Len(genStack)].args, Params)
       THEN GenReturn("expected args")
       ELSE /\ genStack' = [genStack EXCEPT ![Len(genStack)].pc = "bind"]
            /\ UNCHANGED genRet
  /\ UNCHANGED genScope
  /\ UNCHANGED <<genAlias, chkVars, declVars, chkArg, rdVars, ibVars, logVars, progVars>>

\* parameterizedScope: one turn of its loop, or one call an argument makes
GenBind ==
  /\ genStack # <<>>
  /\ LET n == Len(genStack)
         top == genStack[n]
         arg == top.args[top.i]
     IN /\ top.pc = "bind"
        /\ IF top.i > Len(Params)
             THEN /\ genStack' = [genStack EXCEPT ![n].pc = "hook"]
                  /\ UNCHANGED <<genScope, genRet>>
           ELSE IF arg.kind = "lit"
             THEN /\ genScope' = [genScope EXCEPT ![Params[top.i]] = arg.val]
                  /\ genStack' = [genStack EXCEPT ![n].i = top.i + 1]
                  /\ UNCHANGED genRet
           ELSE IF top.got = "none"
             THEN /\ genStack' =
                       Append(genStack,
                              [args |-> <<[kind |-> "lit", val |-> arg.val],
                                          [kind |-> "lit", val |-> "scratch"]>>,
                               i |-> 1, got |-> "none", pc |-> "arity"])
                  /\ UNCHANGED <<genScope, genRet>>
           ELSE IF top.got \in {"expected args", "exiting debugger"}
             THEN GenReturn(top.got) /\ UNCHANGED genScope
           ELSE /\ genScope' = [genScope EXCEPT ![Params[top.i]] = top.got]
                /\ genStack' =
                     [genStack EXCEPT ![n].i = top.i + 1, ![n].got = "none"]
                /\ UNCHANGED genRet
  /\ UNCHANGED <<genAlias, chkVars, declVars, chkArg, rdVars, ibVars, logVars, progVars>>

\* info.Debug(fun.Scope, fun, v) returns nil or the debugger's exit error
GenHook ==
  /\ genStack # <<>>
  /\ genStack[Len(genStack)].pc = "hook"
  /\ \/ /\ genStack' = [genStack EXCEPT ![Len(genStack)].pc = "body"]
        /\ UNCHANGED genRet
     \/ GenReturn("exiting debugger")
  /\ UNCHANGED genScope
  /\ UNCHANGED <<genAlias, chkVars, declVars, chkArg, rdVars, ibVars, logVars, progVars>>

\* The body image p: p is looked up in fun.Scope
GenBody ==
  /\ genStack # <<>>
  /\ genStack[Len(genStack)].pc = "body"
  /\ GenReturn("image:" \o genScope["p"])
  /\ UNCHANGED genScope
  /\ UNCHANGED <<genAlias, chkVars, declVars, chkArg, rdVars, ibVars, logVars, progVars>>

\* The host functions of aliases: the type, and for each call statement of
\* the body whether it carries an `as` clause and where it stands: in the
\* body itself, in a function literal passed for an fs parameter, or in one
\* passed for an option parameter
AliasHosts ==
  [type : {"fs", "string"},
   stmts : [1..2 -> [alias : BOOLEAN, via : {"stmt", "fslit", "optlit"}]]]

\* The alias callback handed to emitFuncDecl reaches the call statement:
\* emitStringBlock takes no callback, emitOptionExpr passes the noop one
AliasReached(type, via) == type = "fs" /\ via \in {"stmt", "fslit"}

\* emitAliasDecl for the alias of statement at: the host's statements from
\* k on are evaluated, v is what the callback has captured
RECURSIVE emitAliasDecl(_, _, _, _)
emitAliasDecl(host, at, k, v) ==
  IF k > Len(host.stmts) THEN v
  ELSE emitAliasDecl(host, at, k + 1,
                     IF /\ host.stmts[k].alias
                        /\ AliasReached(host.type, host.stmts[k].via)
                        /\ k = at
                       THEN "value:" \o ToString(k) ELSE v)

\* An alias is evaluated
GenAlias ==
  /\ genStack = <<>>
  /\ genRet = "none"
  /\ genAlias.at = 0
  /\ \E host \in AliasHosts : \E at \in 1..2 :
       /\ host.stmts[at].alias
       /\ genAlias' =
            [host |-> host, at |-> at, v |-> emitAliasDecl(host, at, 1, "nil")]
  /\ UNCHANGED <<genStack, genScope, genRet, chkVars, declVars, chkArg,
                 rdVars, ibVars, logVars, progVars>>

\* ------------------------------------------------------- source text
\* The bytes of a text: a letter and the newline
Bytes == {97, Newline}

\* The texts of at most n bytes
Texts(n) == UNION {[1..k -> Bytes] : k \in 0..n}

\* nr.newlined after a Read that found it at newlined; eof: the underlying
\* reader was read and reported io.EOF. The newline is not handed out
NewlinedDrop(n, eof) == IF n = 1 \/ eof THEN 2 ELSE n

\* nr.newlined after a Read that found it at newlined; eof: the underlying
\* reader was read and reported io.EOF
Newlined(n, eof) == IF n = 1 \/ eof THEN n + 1 ELSE n

\* A NewlinedReader is put around a reader holding data
NrOpen ==
  /\ rdErr = "none"
  /\ ibBuf = <<>>
  /\ ibRes.op = "none"
  /\ \E data \in Texts(MaxLen) : rdAll' = data /\ rdRest' = data
  /\ rdErr' = "nil"
  /\ UNCHANGED <<rdOut, newlined, ibVars, logVars, declVars, chkArg, genVars,
                 chkVars, progVars>>

\* NewlinedReader.Read(p) with len(p) > 0: the underlying reader, when read,
\* hands out n of its bytes, with io.EOF or without once none is left
NrRead ==
  /\ rdErr # "none"
  /\ IF newlined > 1
       THEN rdErr' = "EOF" /\ UNCHANGED <<rdRest, rdOut, newlined>>
     ELSE IF newlined = 1
       THEN /\ rdOut' = Append(rdOut, Newline)
            /\ newlined' = Newlined(newlined, FALSE)
            /\ rdErr' = "nil"
            /\ UNCHANGED rdRest
     ELSE \E n \in 0..Len(rdRest) : \E eof \in BOOLEAN :
            /\ eof => n = Len(rdRest)
            /\ rdOut' = rdOut \o SubSeq(rdRest, 1, n)
            /\ rdRest' = SubSeq(rdRest, n + 1, Len(rdRest))
            /\ newlined' = Newlined(newlined, eof)
            /\ rdErr' = "nil"
  /\ UNCHANGED <<rdAll, ibVars, logVars, declVars, chkArg, genVars, chkVars,
                 progVars>>

\* The offsets IndexedBuffer.Write appends for p[k..], written at offset
RECURSIVE WriteOffsets(_, _, _)
WriteOffsets(p, k, offset) ==
  IF k > Len(p) THEN <<>>
  ELSE (IF p[k] = Newline THEN <<offset + k - 1>> ELSE <<>>)
         \o WriteOffsets(p, k + 1, offset)

\* IndexedBuffer.Write(p)
IbWrite ==
  /\ rdErr = "none"
  /\ ibRes.op = "none"
  /\ \E p \in Texts(MaxChunk) :
       /\ Len(p) > 0
       /\ Len(ibBuf) + Len(p) <= MaxLen + 1
       /\ ibBuf' = ibBuf \o p
       /\ ibOffsets' = ibOffsets \o WriteOffsets(p, 1, ibOffset)
       /\ ibOffset' = ibOffset + Len(p)
  /\ UNCHANGED <<ibRes, rdVars, logVars, declVars, chkArg, genVars, chkVars,
                 progVars>>

\* The result of a Segment or Line call
IbResult(op, arg, bytes, err) ==
  [op |-> op, arg |-> arg, bytes |-> bytes, err |-> err]

\* ib.read(start, end); make([]byte, end-start) panics when end < start
IbRead(op, arg, start, end) ==
  IF end < start THEN IbResult(op, arg, <<>>, "panic")
  ELSE IbResult(op, arg,
                SubSeq(ibBuf, start + 1,
                       IF end < Len(ibBuf) THEN end ELSE Len(ibBuf)),
                "nil")

\* ib.offsets[i] with the index i of the code, from 0
OffsetAt(i) == ibOffsets[i + 1]

\* findNearestLineIndex(offset)
findNearestLineIndex(offset) ==
  LET ge == {i \in 0..(Len(ibOffsets) - 1) : OffsetAt(i) >= offset}
      index == IF ge = {} THEN Len(ibOffsets)
               ELSE CHOOSE i \in ge : \A j \in ge : i <= j
  IN IF index < Len(ibOffsets) /\ OffsetAt(index) < offset THEN index
     ELSE index - 1

\* IndexedBuffer.Segment(offset)
Segment(offset) ==
  IF Len(ibOffsets) = 0 THEN IbResult("Segment", offset, ibBuf, "nil")
  ELSE LET index == findNearestLineIndex(offset)
           start == IF index >= 0 THEN OffsetAt(index) + 1 ELSE 0
       IN IF start > Len(ibBuf) - 1
            THEN IbResult("Segment", offset, <<>>, "EOF")
          ELSE IbRead("Segment", offset, start,
                      IF offset < OffsetAt(Len(ibOffsets) - 1)
                        THEN OffsetAt(index + 1)
                        ELSE Len(ibBuf))

\* IndexedBuffer.Line(num); an index out of range panics
Line(num) ==
  IF num > Len(ibOffsets) THEN IbResult("Line", num, <<>>, "error")
  ELSE IF Len(ibOffsets) = 0 \/ (num > 0 /\ num >= Len(ibOffsets))
    THEN IbResult("Line", num, <<>>, "panic")
  ELSE IbRead("Line", num,
              IF num > 0 THEN OffsetAt(num - 1) + 1 ELSE 0,
              IF num > 0 THEN OffsetAt(num) ELSE OffsetAt(0))

\* Segment is called with an offset inside the buffer
IbSegment ==
  /\ ibRes.op = "none"
  /\ \E offset \in 0..(Len(ibBuf) - 1) : ibRes' = Segment(offset)
  /\ UNCHANGED <<ibBuf, ibOffset, ibOffsets, rdVars, logVars, declVars, chkArg,
                 genVars, chkVars, progVars>>

\* Line is called with a line number, in range or not
IbLine ==
  /\ ibRes.op = "none"
  /\ rdErr = "none"
  /\ \E num \in 0..(Len(ibOffsets) + 1) : ibRes' = Line(num)
  /\ UNCHANGED <<ibBuf, ibOffset, ibOffsets, rdVars, logVars, declVars, chkArg,
                 genVars, chkVars, progVars>>

\* ---------------------------------------------------------- task logs
\* task, ok := m.taskByID[id]: no task is made for every id
RegisteredNever(tasks, id) == FALSE

\* task, ok := m.taskByID[id]: ok
Registered(tasks, id) == tasks[id] # NoTask

\* client.VertexLog as the consumer reads it: Vertex and Data
Logs ==
  UNION {[1..n -> [vertex : Digests, data : {<<97>>, <<98>>}]] : n \in 0..MaxLogs}

\* The loop over solveStatus.Logs from logs[k] on: a log of a digest that
\* tasks lacks is skipped, any other is written with task.Write
RECURSIVE WriteLogs(_, _, _, _, _)
WriteLogs(logs, k, tasks, buf, has) ==
  IF k > Len(logs) THEN [buf |-> buf, has |-> has]
  ELSE LET l == logs[k] IN
    IF ~Registered(tasks, l.vertex) THEN WriteLogs(logs, k + 1, tasks, buf, has)
    ELSE WriteLogs(logs, k + 1, tasks,
                   [buf EXCEPT ![l.vertex] = @ \o l.data],
                   [has EXCEPT ![l.vertex] = TRUE])

\* The bytes received per digest once logs has arrived after recv
RECURSIVE Received(_, _, _)
Received(logs, k, recv) ==
  IF k > Len(logs) THEN recv
  ELSE Received(logs, k + 1, [recv EXCEPT ![logs[k].vertex] = @ \o logs[k].data])

\* One turn of handleStatus's loop on a status of job j with at most one
\* vertex and with logs: the vertex is folded, and unless task.Start failed
\* the logs are written
HandleStatus ==
  /\ panicked = NoPanic
  /\ hPc = "recv"
  /\ \E j \in Jobs : \E vs \in Statuses \cup {<<>>} : \E logs \in Logs :
       /\ nRecv["j1"] + nRecv["j2"] < MaxFolds
       /\ nRecv' = [nRecv EXCEPT ![j] = @ + 1]
       /\ logsRecv' = Received(logs, 1, logsRecv)
       /\ LET id == IF vs = <<>> THEN "d1" ELSE vs[1].digest
              vtx == IF vs = <<>> THEN NoVtx ELSE vs[1]
              prev == vtxByDigest[id]
              ok == Registered(taskByID, id)
              t0 == IF ok THEN taskByID[id] ELSE newTask(id)
              t1 == SetDescription(t0, vtx.name)
              starts == vtx.started /\ (prev = NoVtx \/ ~prev.started)
              err == IF starts THEN StartErr(t1) ELSE NoErr
              t2 == IF starts THEN Start(t1) ELSE t1
              t3 == IF err = NoErr /\ vtx.completed
                      THEN Complete(t2, vtx.error) ELSE t2
              tasks == IF vs = <<>> THEN taskByID
                       ELSE [taskByID EXCEPT ![id] = t3]
              failed == vs # <<>> /\ err # NoErr
              w == IF failed THEN [buf |-> taskBuf, has |-> hasLogs]
                   ELSE WriteLogs(logs, 1, tasks, taskBuf, hasLogs)
          IN /\ taskByID' = tasks
             /\ vtxByDigest' = IF vs = <<>> THEN vtxByDigest
                               ELSE [vtxByDigest EXCEPT ![id] = vtx]
             /\ jobTasks' = IF vs = <<>> \/ ok THEN jobTasks
                            ELSE [jobTasks EXCEPT ![j] = @ \cup {id}]
             /\ taskPc' = IF vs = <<>> \/ ok THEN taskPc
                          ELSE [taskPc EXCEPT ![id] = "send"]
             /\ hErr' = IF failed THEN err ELSE NoErr
             /\ hPc' = IF failed THEN "ret" ELSE "recv"
             /\ taskBuf' = w.buf
             /\ hasLogs' = w.has
  /\ UNCHANGED <<uiVars, dbgVars, chkVars, declVars, chkArg, genVars, rdVars,
                 ibVars, mgrVars, grpVars, fnPc, jobPc, fwdPc, fwdBuf, prodVars,
                 hCur, hIdx, hPrev, lastFold, wVars, rVars, vtxMu, panicked>>

\* job.Status() keeping the most advanced status of the tasks
JobStatusLast(ids) ==
  IF ids = {} THEN TaskCreated
  ELSE LET sts == {taskByID[d].status : d \in ids}
       IN CHOOSE m \in sts : \A x \in sts : x <= m

\* job.Status() of a job whose taskByID holds the tasks of ids: TaskCreated
\* without tasks, else the least of TaskUnknown and the tasks' statuses
JobStatus(ids) ==
  IF ids = {} THEN TaskCreated
  ELSE LET sts == {TaskUnknown} \cup {taskByID[d].status : d \in ids}
       IN CHOOSE m \in sts : \A x \in sts : m <= x

\* One turn of handleStatus's loop on a status without logs
HandleVertexes == HandleStatus /\ UNCHANGED logVars

\* ------------------------------------------------------ specification
\* The client: Run, and its function's calls and return
Client(JS, ES) ==
  \/ Run
  \/ \E e \in ES : FnReturn(e)
  \/ \E j \in JS : NewJob(j)
  \/ \E j \in JS : NewChannel(j)

\* The goroutines the manager runs for the jobs JS fed with the statuses SS
Manager(JS, SS) ==
  \/ \E j \in JS : JobReturn(j)
  \/ \E j \in JS : \E s \in SS : FwdRecv(j, s)
  \/ \E j \in JS : FwdClosed(j)
  \/ \E d \in Digests : TaskReturn(d)
  \/ \E j \in JS : HRecv(j)
  \/ HClosed
  \/ HLock
  \/ HVtx
  \/ HTask
  \/ HComplete
  \/ WaitGroup
  \/ WaitRecv

\* A run with its cancellations, errors and repeated calls
Next ==
  \/ Client(RunJobs, FnErrors)
  \/ Manager(RunJobs, FlowStatuses)
  \/ \E j \in RunJobs : FwdCanceled(j)
  \/ ParentCancel
  \/ Release
  \/ WaitAgain

Spec == Init /\ [][Next]_vars

\* A run that is not cancelled, fed with every status, rendered by the TUI
ViewNext ==
  \/ Client(RunJobs, {NoErr})
  \/ Manager(RunJobs, Statuses)
  \/ ViewCurrent
  \/ CurrentRead
  \/ TotalLen
  \/ TotalRead

ViewSpec == Init /\ [][ViewNext]_vars

\* Run with its TUI and the debugger
RunNext ==
  \/ RunTui
  \/ CompileReturn
  \/ \E j \in Jobs : NewJob(j)
  \/ \E j \in Jobs : JobQuit(j)
  \/ \E j \in Jobs : TuiJob(j)
  \/ TuiNewCanceled
  \/ TuiQuit
  \/ KeyQ
  \/ CtrlC
  \/ RunParentCancel
  \/ WaitGroup
  \/ HClosed
  \/ WaitRecv
  \/ RunReturn
  \/ HookCall
  \/ DbgStep
  \/ DbgContinue
  \/ DbgReverse
  \/ DbgRestart
  \/ DbgExit
  \/ HookResume

RunSpec == Init /\ [][RunNext]_vars

\* The semantic checker on bounded declarations and calls
CheckNext ==
  \/ SemanticCheck
  \/ CheckCall
  \/ SemanticDecls
  \/ CheckArg

CheckSpec == Init /\ [][CheckNext]_vars

\* The code generator on calls of a function with parameters and on aliases
GenNext ==
  \/ GenCall
  \/ GenArity
  \/ GenBind
  \/ GenHook
  \/ GenBody
  \/ GenAlias

GenSpec == Init /\ [][GenNext]_vars

\* The source text: the reader the parser reads from, the indexed buffer
TextNext ==
  \/ NrOpen
  \/ NrRead
  \/ IbWrite
  \/ IbSegment
  \/ IbLine

TextSpec == Init /\ [][TextNext]_vars

\* The debugger on bounded programs
DebugNext ==
  \/ DbgLoad
  \/ RunTui
  \/ HookCall
  \/ DbgStep
  \/ DbgContinue
  \/ DbgNext
  \/ DbgBreak
  \/ DbgClear
  \/ DbgReverse
  \/ DbgRestart
  \/ DbgExit
  \/ HookResume

DbgSpec == Init /\ [][DebugNext]_vars

\* The jobs and tasks the manager offers on Jobs() and Tasks()
TaskNext ==
  \/ Run
  \/ \E j \in Jobs : NewJob(j)
  \/ \E j \in Jobs : JobReturn(j)
  \/ \E d \in Digests : TaskReturn(d)
  \/ HandleVertexes

TaskSpec == Init /\ [][TaskNext]_vars

\* Run with its TUI: jobs are created, handleStatus folds their statuses, and
\* the TUI receives from Jobs() and from Tasks()
TuiNext ==
  \/ RunTui
  \/ \E j \in Jobs : NewJob(j)
  \/ HandleVertexes
  \/ \E j \in Jobs : TuiJob(j)
  \/ \E d \in Digests : TuiTask(d)

TuiSpec == Init /\ [][TuiNext]_vars

\* The log loop of handleStatus
LogSpec == Init /\ [][HandleStatus]_vars

\* ------------------------------------------------------------- claims
TerminalStatuses == {TaskCached, TaskCompleted, TaskErrored, TaskCanceled}

\* C1: in every reachable state Current() <= Total(), whatever length the
\* unlocked read of the task map gives, and the Current() the TUI obtained
\* first is at most the Total() it obtains next.
CurrentLeTotal ==
  /\ \A n \in 0..LenTasks : Current(vtxByDigest) <= Total(n, vtxByDigest)
  /\ rPc = "tot" => rCur <= Total(rMin, vtxByDigest)

\* C1 happens: the TUI holds Current() = 2 and a stale task-map length
CurrentLeTotalWitness == rPc = "tot" /\ rCur = 2 /\ rMin < 2

\* C2: every status change of a task is Created -> Running or Running -> a
\* terminal status; a task starts as Created and a terminal status is final.
TaskLifecycle ==
  [][\A d \in Digests :
       LET old == IF taskByID[d] = NoTask THEN TaskCreated ELSE taskByID[d].status
           new == taskByID'[d].status
       IN taskByID'[d] # NoTask /\ new # old =>
            \/ old = TaskCreated /\ new = TaskRunning
            \/ old = TaskRunning /\ new \in TerminalStatuses]_vars

\* A goroutine submitted by NewJob, NewTask or NewChannel has not returned
Pending ==
  \/ \E j \in Jobs : jobPc[j] = "send" \/ fwdPc[j] \in {"select", "send"}
  \/ \E d \in Digests : taskPc[d] = "send"

\* A step of the goroutines the manager runs, the producers and the client
\* left aside
ManagerStep ==
  \/ \E j \in Jobs : JobReturn(j) \/ FwdCanceled(j) \/ HRecv(j)
  \/ \E d \in Digests : TaskReturn(d)
  \/ HClosed \/ HLock \/ HVtx \/ HTask \/ HComplete
  \/ WaitGroup \/ WaitRecv

\* C3: once the shared context is cancelled, every goroutine submitted by
\* NewJob, NewTask and NewChannel returns: while one of them has not, the
\* manager's goroutines have a step to take.
CancelReturns ==
  (ctxErr # NoErr /\ panicked = NoPanic /\ Pending) => ENABLED ManagerStep

\* C4: when Wait() has returned, every submitted function has returned and
\* the status consumer has exited with no status left in its hands.
WaitReturnsLast ==
  wPc = "returned" =>
    /\ Live = 0
    /\ hPc = "exited"
    /\ hCur = NoStatus
    /\ \A j \in Jobs : fwdPc[j] # "send"

\* C5: a call of Release() when interrupt is already closed changes nothing
\* and does not fail.
ReleaseIdempotent == [][(interrupt /\ Release) => UNCHANGED vars]_vars

\* C6: the build status starts as Building, is never Unknown, and changes
\* only from Building to Finished, Failed or Canceled.
BuildStatusOnce ==
  /\ status = BuildBuilding
  /\ [](status # BuildUnknown)
  /\ [][status' # status =>
          /\ status = BuildBuilding
          /\ status' \in {BuildFinished, BuildFailed, BuildCanceled}]_vars

\* C6 happens: Wait has set a final status
BuildStatusOnceWitness == wPc = "returned" /\ status = BuildFinished

\* An error that reports a cancelled context
IsCancellation(e) == e \in {ErrCanceled, ErrRpcCanceled}

\* C7: when Wait has returned, the build is Failed if the first error a
\* submitted function returned (or, with none, the consumer's) is no
\* cancellation, and it is Canceled only if that error is a cancellation.
WaitVerdict ==
  wPc = "returned" =>
    LET first == IF firstRet # NoErr THEN firstRet ELSE hErr IN
      /\ (first # NoErr /\ ~IsCancellation(first)) => status = BuildFailed
      /\ status = BuildCanceled => IsCancellation(first)
      /\ first = NoErr => status = BuildFinished

\* C7 happens: a function failed first, another returned the cancellation
\* that followed, and the build is Failed
WaitVerdictWitness ==
  /\ wPc = "returned"
  /\ firstRet = ErrSolve
  /\ lastRet = ErrCanceled
  /\ status = BuildFailed

\* C8: the statuses of one channel reach the consumer in the order sent, none
\* dropped or repeated, and the consumer folds their vertexes in that order:
\* the status a forwarder offers is the one after the last the consumer took,
\* and the vertex folded last is the one before the consumer's position.
FoldOrder ==
  \A j \in Jobs :
    /\ fwdPc[j] = "send" => fwdBuf[j].seq = nRecv[j] + 1
    /\ IF hCur # NoStatus /\ hCur.job = j
         THEN /\ hCur.seq = nRecv[j]
              /\ lastFold[j] =
                   IF hPc = "complete" THEN <<hCur.seq, hIdx>>
                   ELSE IF hIdx > 1 THEN <<hCur.seq, hIdx - 1>>
                   ELSE <<hCur.seq - 1, IF hCur.seq = 1 THEN 0 ELSE 1>>
         ELSE lastFold[j] = <<nRecv[j], IF nRecv[j] = 0 THEN 0 ELSE 1>>

\* C8 happens: two statuses of a channel are folded and a third is offered
FoldOrderWitness ==
  lastFold["j1"] = <<2, 1>> /\ fwdPc["j1"] = "send" /\ hPc = "recv"

\* C9 as stated: a send a producer has completed is a status the consumer
\* has accepted.
SendWaitsForConsumer == \A j \in Jobs : nSent[j] <= nRecv[j]

\* C9 amended: at most one status of a channel is ahead of the consumer, the
\* one its forwarder holds; none is accepted from the producer meanwhile.
OneStatusAhead ==
  \A j \in Jobs :
    nSent[j] = nRecv[j] + (IF fwdPc[j] = "send" THEN 1 ELSE 0)

\* C9 happens: the second send completed while the consumer folds the first
OneStatusAheadWitness ==
  nSent["j1"] = 2 /\ nRecv["j1"] = 1 /\ hPc = "task"

\* handleStatus is about to write m.taskByID
TaskWrite ==
  hPc = "task" /\ taskByID[hCur.vertexes[hIdx].digest] = NoTask

\* C10: no read of taskByID or vtxByDigest by the TUI can overlap a write of
\* that map by handleStatus.
NoMapRace ==
  /\ ~(TaskWrite /\ rPc = "totlen")
  /\ ~(hPc = "vtx" /\ rPc \in {"cur", "tot"})

\* C11: Total() is non-decreasing: whatever lengths the unlocked reads of the
\* task map give, the Total() of the state after a step is at least the
\* Total() of the state before it.
TotalMonotone ==
  [][\A n \in 0..LenTasks : \A n2 \in 0..LenTasks' :
       Total(n2, vtxByDigest') >= Total(n, vtxByDigest)]_vars

\* C11 happens: Total() is being taken with two vertices folded and the task
\* of the second not yet created
TotalMonotoneWitness ==
  /\ rPc = "tot"
  /\ LenTasks = 1
  /\ Cardinality({d \in Digests : vtxByDigest[d] # NoVtx}) = 2

\* A step of Run, of its TUI goroutine or of the manager's goroutines, the
\* user's keys and the parent's cancellation left aside
RunStep ==
  \/ \E j \in Jobs : JobQuit(j) \/ TuiJob(j)
  \/ TuiNewCanceled \/ TuiQuit
  \/ WaitGroup \/ HClosed \/ WaitRecv
  \/ RunReturn

\* C12: Run returns for every outcome of the compile-and-solve function:
\* once that function has returned and while Run has not, Run, its TUI
\* goroutine or the manager has a step to take.
RunReturns ==
  (runPc = "wait" /\ fnPc = "returned" /\ panicked = NoPanic)
    => ENABLED RunStep

\* C13: after exit at a debugger prompt, at the current step or in a replay,
\* the function Run submitted has returned no error: when Wait has returned
\* no submitted function has failed, and the build is Finished unless the
\* context was cancelled first.
DebugExitClean ==
  (dbgPc = "exit" /\ wPc = "returned") =>
    /\ firstRet \in {NoErr, ErrCanceled}
    /\ status = IF firstRet = NoErr THEN BuildFinished ELSE BuildCanceled

\* C13 happens: exit was given while replaying history and the run is Finished
DebugExitCleanWitness ==
  /\ dbgPc = "exit"
  /\ dbgLoop
  /\ runPc = "returned"
  /\ status = BuildFinished

\* C14: at a prompt reached by N forward steps followed by K reverse-steps,
\* the debugger presents the snapshot recorded at the hook call that was
\* current after N - K forward steps, and the scope it refers to holds what
\* it held when the snapshot was recorded.
HistoryReplay ==
  (dbgPc = "prompt" /\ dbgTrail[1] >= 0) =>
    LET n == dbgTrail[1] - dbgTrail[2] + 1 IN
      /\ dbgTrail[2] <= dbgTrail[1]
      /\ Presented = Snap(n)
      /\ ScopeNow(Presented) = ArgData(n)

\* C15: the registry the checker consults is consistent: the names of every
\* namespace table (the options of each operation, the common options, the
\* sources, ops and debug ops of fs, the sources of string) are exactly the
\* names the signature table of the corresponding type has entries for.
RegistryConsistent ==
  chkPc # "idle"
    => /\ DOMAIN OptionBuiltins = DOMAIN OptionLists
       /\ \A op \in DOMAIN OptionLists : OptionLists[op] = BuiltinNames(OptionType(op))
       /\ CommonOptions = BuiltinNames("option")
       /\ Sources \cup Ops \cup Debugs = BuiltinNames("fs")
       /\ BuiltinSources("string") = BuiltinNames("string")

\* The call given to checkCallStmt resolves to a builtin or a declaration
CalleeKnown ==
  \/ chkCall.call.name \in CallFuncs(chkBlock.typ, chkBlock.op, chkCall.index)
  \/ Defined(chkCall.call.name)

\* The declared parameter list of that callee
CalleeFields ==
  IF chkCall.call.name \in CallFuncs(chkBlock.typ, chkBlock.op, chkCall.index)
    THEN Builtins(IF chkBlock.typ = "option" THEN OptionType(chkBlock.op)
                  ELSE chkBlock.typ, chkCall.call.name)
    ELSE Decls[chkCall.call.name].params

\* Its fixed parameters: all of them but a final variadic one
CalleeFixed ==
  IF Len(CalleeFields) > 0 /\ CalleeFields[Len(CalleeFields)].variadic
    THEN SubSeq(CalleeFields, 1, Len(CalleeFields) - 1)
    ELSE CalleeFields

CalleeVariadic ==
  Len(CalleeFields) > 0 /\ CalleeFields[Len(CalleeFields)].variadic

\* The expanded parameter count: the fixed parameters, and one parameter
\* for each argument a final variadic parameter absorbs
CalleeExpected ==
  IF CalleeVariadic /\ Len(chkCall.call.args) > Len(CalleeFixed)
    THEN Len(chkCall.call.args)
    ELSE Len(CalleeFixed)

\* C16: a call of a known callee whose argument count differs from the
\* callee's expanded parameter count, fewer arguments than the fixed
\* parameters before a variadic one included, gets ErrNumArgs with the
\* expected count, and nothing else.
ArityChecked ==
  (chkPc = "call" /\ CalleeKnown
     /\ Len(chkCall.call.args) # CalleeExpected)
    => chkVerdict = Verdict("NumArgs", 1, CalleeExpected)

NonDebug ==
  SelectSeq(NonEmptyStmts(chkBlock.stmts), LAMBDA st : st.name \notin Debugs)

\* C18: an accepted block of a non-option type has a non-debug call and its
\* first one is a builtin source of the block's type or names a declaration
\* of the block's type; every other block gets ErrNoSource or ErrFirstSource.
SourceFirst ==
  (chkPc = "block" /\ chkBlock.typ # "option")
    => LET sourced ==
             /\ Len(NonDebug) > 0
             /\ FirstSourceOk(chkBlock.typ, NonDebug[1].name)
       IN /\ chkVerdict = Nil => sourced
          /\ ~sourced => chkVerdict.err \in {"NoSource", "FirstSource"}

\* The calls of the checked block that name a builtin source after the
\* first non-debug call, by position among the block's calls
LaterSources ==
  LET ne == NonEmptyStmts(chkBlock.stmts)
  IN {p \in 1..Len(ne) :
        /\ ne[p].name \in BuiltinSources(chkBlock.typ)
        /\ \E q \in 1..(p - 1) : ne[q].name \notin Debugs}

OptionNamespace ==
  (chkPc = "block" /\ chkBlock.typ = "option" /\ chkVerdict = Nil)
    => \A k \in 1..Len(chkBlock.stmts) :
         chkBlock.stmts[k].kind = "call"
           => chkBlock.stmts[k].name \in KeywordsByName(chkBlock.op)

\* The idents declared in module scope under a name: functions and aliases
DeclaredAs(name) ==
  {<<i, 0>> : i \in {i \in 1..Len(declFile) : declFile[i].name = name}}
    \cup {<<i, 1>> : i \in {i \in 1..Len(declFile) : declFile[i].alias = name}}

\* C21: when SemanticCheck returns no error, no two declarations of module
\* scope, functions or aliases, share a name, and no function has two
\* parameters of one name, in whatever order the declarations stand.
DeclsUnique ==
  (chkPc = "decls" /\ declErr.err = "nil")
    => /\ \A name \in DeclNames : Cardinality(DeclaredAs(name)) <= 1
       /\ \A i \in 1..Len(declFile) :
            declFile[i].params[1] # declFile[i].params[2]

\* The names more than one function declaration has
DupFuncs ==
  {name \in DeclNames :
     Cardinality({i \in 1..Len(declFile) : declFile[i].name = name}) > 1}

\* C22: when function names are declared more than once, SemanticCheck
\* returns one ErrDuplicateDecls that lists, for every such name, the ident
\* of its first declaration and of each later one, and checks no body.
DuplicatesListed ==
  (chkPc = "decls" /\ DupFuncs # {})
    => /\ declErr.err = "DuplicateDecls"
       /\ declErr.bodies = 0
       /\ \A i \in 1..Len(declFile) :
            declFile[i].name \in DupFuncs
              => \E k \in 1..Len(declErr.dupDecls) :
                   declErr.dupDecls[k] = <<i, 0>>

\* C23: an argument the checker accepts has the type of its parameter: an
\* identifier names a function without parameters that returns that type
\* or a field of that type, a basic literal is of that kind, a function
\* literal carries that type.
ArgTyped ==
  (chkPc = "arg" /\ chkVerdict = Nil)
    => CASE chkArg.arg.kind = "ident" ->
              \/ /\ chkArg.arg.name \in DOMAIN Decls
                 /\ Decls[chkArg.arg.name].params = <<>>
                 /\ Decls[chkArg.arg.name].type = chkArg.typ
              \/ /\ chkArg.arg.name \in DOMAIN Fields
                 /\ Fields[chkArg.arg.name] = chkArg.typ
         [] chkArg.arg.kind = "lit" -> chkArg.arg.name = chkArg.typ
         [] chkArg.arg.kind = "funclit" -> chkArg.arg.name = chkArg.typ

\* What an argument expression evaluates to
ArgValue(arg) == IF arg.kind = "lit" THEN arg.val ELSE "image:" \o arg.val

\* C24: when the body of a function is evaluated for a call, every
\* parameter name resolves to the value of that call's matching argument,
\* also when a later argument of the call calls the same function.
ParamsBound ==
  (genStack # <<>> /\ genStack[Len(genStack)].pc = "body")
    => \A k \in 1..Len(Params) :
         genScope[Params[k]] = ArgValue(genStack[Len(genStack)].args[k])

\* C25: code generation leaves the scopes as SemanticCheck built them: the
\* objects Lookup finds in a function scope keep their kind and data.
ScopesReadOnly == genScope = [n \in {"p", "q"} |-> "none"]

\* C26: evaluating an alias returns the value captured at the call
\* statement that carries it, the value after that statement's operation,
\* wherever in the host body that call is nested.
AliasCaptured ==
  genAlias.at # 0 => genAlias.v = "value:" \o ToString(genAlias.at)


\* The positions, from 1, of the newlines of the buffer
NewlinePos == {i \in 1..Len(ibBuf) : ibBuf[i] = Newline}

\* The position of the k-th newline of the buffer
NthNewline(k) ==
  CHOOSE i \in NewlinePos : Cardinality({j \in NewlinePos : j <= i}) = k

\* The line holding the byte at offset (from 0), without its newline
LineAt(offset) ==
  LET before == {i \in NewlinePos : i < offset + 1}
      after == {i \in NewlinePos : i >= offset + 1}
      start == IF before = {} THEN 1
               ELSE 1 + CHOOSE i \in before : \A j \in before : j <= i
      end == IF after = {} THEN Len(ibBuf)
             ELSE (CHOOSE i \in after : \A j \in after : i <= j) - 1
  IN SubSeq(ibBuf, start, end)

\* The n-th line (from 1) of the buffer, without its newline
NthLine(n) ==
  SubSeq(ibBuf, IF n = 1 THEN 1 ELSE NthNewline(n - 1) + 1, NthNewline(n) - 1)

\* C27: what a NewlinedReader has handed out is always a prefix of the
\* underlying bytes followed by one newline; once a Read has reported EOF
\* (or newlined has passed 1, after which every Read reports EOF) it is
\* exactly the underlying bytes followed by exactly one newline, whatever
\* the chunks of the underlying reader and however it signalled its end.
NewlineAppended ==
  LET want == Append(rdAll, Newline)
  IN /\ Len(rdOut) <= Len(want)
     /\ rdOut = SubSeq(want, 1, Len(rdOut))
     /\ rdErr = "EOF" => newlined > 1
     /\ newlined > 1 => rdOut = want
     /\ newlined = 0 => rdOut \o rdRest = rdAll

NewlineAppendedWitness ==
  /\ rdErr = "EOF"
  /\ Len(rdAll) = MaxLen
  /\ rdAll[MaxLen] # Newline
  /\ rdOut = Append(rdAll, Newline)

\* C28: Segment(offset) returns without error exactly the bytes of the line
\* holding offset, from the byte after the preceding newline up to and
\* excluding the next newline, also for an offset in the last line or on a
\* newline byte.
SegmentIsLine ==
  ibRes.op = "Segment" => ibRes.err = "nil" /\ ibRes.bytes = LineAt(ibRes.arg)

\* C29: for n in 1..Len() Line(n) returns the n-th line without its newline,
\* however the Writes were split; for every other n, and for an empty
\* buffer, it returns an error and does not fail in another way.
LineIsNth ==
  ibRes.op = "Line" =>
    IF ibRes.arg \in 1..Len(ibOffsets)
      THEN ibRes.err = "nil" /\ ibRes.bytes = NthLine(ibRes.arg)
      ELSE ibRes.err = "error"


\* C30: for every digest the log buffer of its task is the concatenation, in
\* the order of arrival, of every log chunk handleStatus has received for
\* that digest, and HasLogs() holds exactly when a chunk has been received.
LogsKept ==
  \A d \in Digests :
    /\ taskBuf[d] = logsRecv[d]
    /\ hasLogs[d] <=> logsRecv[d] # <<>>

\* C31: once handleStatus has folded a status of job j that holds a vertex
\* of digest d (here: a fold that changed the vertex kept for d), j depends
\* on d, also when another job reported d first.
JobDepends ==
  [][\A j \in Jobs : \A d \in Digests :
       (nRecv'[j] > nRecv[j] /\ vtxByDigest'[d] # vtxByDigest[d])
         => d \in jobTasks'[j]]_vars

\* C32: a digest has one task, made by the first fold that mentions it and
\* kept by every later fold of any job (it is never replaced by a new task
\* in status Created); the goroutine that offers it on Tasks() is submitted
\* with that first fold and never again, and the goroutine that offers a job
\* on Jobs() is submitted once, so neither is sent twice.
OneTaskPerDigest ==
  [][/\ \A d \in Digests :
          /\ taskByID[d] # NoTask =>
               /\ taskByID'[d] # NoTask
               /\ taskByID'[d].id = d
               /\ taskByID[d].status # TaskCreated
                    => taskByID'[d].status # TaskCreated
          /\ (taskPc[d] # "send" /\ taskPc'[d] = "send") =>
               taskByID[d] = NoTask /\ taskPc[d] = "idle"
          /\ taskPc[d] = "returned" => taskPc'[d] = "returned"
     /\ \A j \in Jobs :
          /\ (jobPc[j] # "send" /\ jobPc'[j] = "send") => jobPc[j] = "idle"
          /\ jobPc[j] = "returned" => jobPc'[j] = "returned"]_vars

OneTaskPerDigestWitness ==
  /\ nRecv["j1"] > 0
  /\ nRecv["j2"] > 0
  /\ taskByID["d1"] # NoTask
  /\ taskByID["d1"].status # TaskCreated
  /\ jobTasks["j2"] = {}
  /\ taskByID["d2"] = NoTask
  /\ taskPc["d1"] = "returned"
  /\ jobPc["j1"] = "returned"

\* C33: Job.Status() is Created for a job without tasks and otherwise the
\* least advanced status of its tasks in the order Created < Running <
\* Cached < Errored < Canceled < Completed: Completed only when every task is
\* Completed, Errored or Canceled only when no task is Created, Running or
\* Cached.
JobStatusLeast ==
  \A j \in Jobs :
    LET st == JobStatus(jobTasks[j])
        sts == {taskByID[d].status : d \in jobTasks[j]}
    IN /\ jobTasks[j] = {} => st = TaskCreated
       /\ jobTasks[j] # {} => st \in sts /\ \A x \in sts : st <= x
       /\ (jobTasks[j] # {} /\ st = TaskCompleted) => sts = {TaskCompleted}
       /\ st \in {TaskErrored, TaskCanceled} =>
            sts \cap {TaskCreated, TaskRunning, TaskCached} = {}

JobStatusLeastWitness ==
  /\ jobTasks["j1"] = {"d1", "d2"}
  /\ taskByID["d1"].status = TaskCompleted
  /\ taskByID["d2"].status = TaskErrored
  /\ JobStatus(jobTasks["j1"]) = TaskErrored

\* The errors emitFuncDecl returns
GenFailures == {"expected args", "exiting debugger"}

PresentedHook == program[Presented.node]

\* The node of the presented hook call is in the breakpoint set
AtBreakpoint ==
  /\ PresentedHook.fn # "module"
  /\ \E k \in 1..Len(breakpoints) :
       breakpoints[k] = Breakpoint(PresentedHook.fn, PresentedHook.call)

NextSkipsQuietly ==
  (dbgOut.cmd = "next" /\ dbgPc = "ret" /\ dbgOut.skipped) =>
    /\ PresentedHook.fn # next
    /\ ~dbgOut.listed

\* C37: after clear the breakpoint set is exactly the static breakpoints,
\* and every static breakpoint is in the set exactly once.
ClearLeavesStatic ==
  /\ dbgOut.cmd = "clear" => breakpoints = staticBreakpoints
  /\ \A k \in 1..Len(staticBreakpoints) :
       Cardinality({m \in 1..Len(breakpoints) :
                      breakpoints[m] = staticBreakpoints[k]}) = 1

\* C38: the history holds one snapshot per hook call, in the order of the
\* calls, and only a hook call appends to it; at a prompt the index is within
\* the history; when the hook has returned without error the index is that
\* of the last snapshot.
HistoryKept ==
  /\ [](/\ \A n \in 1..Len(history) : history[n] = Snap(n)
        /\ dbgPc = "prompt" => historyIndex \in 0..(Len(history) - 1)
        /\ dbgPc = "idle" => historyIndex = Len(history) - 1)
  /\ [][\/ history' = history
        \/ dbgPc = "idle" /\ history' = Append(history, Snap(Len(history) + 1))]_vars

HistoryKeptWitness ==
  /\ dbgPc = "prompt"
  /\ dbgLoop
  /\ historyIndex = 0
  /\ dbgOut.cmd = "restart"
  /\ Len(history) = MaxSteps
  /\ Len(breakpoints) > 0

\* C39: a call of a declared function that checkCallStmt accepts, a call
\* whose trailing arguments a variadic last parameter absorbs included, has
\* the number of arguments emitFuncDecl asks for.
ArityAgrees ==
  (/\ chkPc = "call"
   /\ chkVerdict = Nil
   /\ Defined(chkCall.call.name)
   /\ chkCall.call.name \notin CallFuncs(chkBlock.typ, chkBlock.op, chkCall.index))
    => ~ArityMismatch(chkCall.call.args, Decls[chkCall.call.name].params)

\* C40: under every interleaving of the Jobs() and Tasks() streams, each task
\* the TUI has received is attached to every job of the TUI that depends on
\* it, a job received after its task included.
TaskAttached ==
  \A d \in tuiTasks : \A j \in tuiJobs :
    d \in jobTasks[j] => d \in jobModelTasks[j]

====
